---- MODULE Spec2Model ----
(***************************************************************************)
(* Consent: authorization server (login, refresh rotation, logout,        *)
(* register), the token codec's decode path, and the relying-party        *)
(* verifier (VerifyAuthorization, ...GetCSRF, ...CheckCSRF,                *)
(* HandleAuthorizationCode).                                               *)
(*                                                                         *)
(* An encoded JWT is modelled by the record of what its three segments    *)
(* carry: the header (alg, typ), the claims (exp, iat, iss, aud, sub,     *)
(* secret) and the signature (the key that signed it and the randomness   *)
(* n drawn for it).  wf = FALSE is a string that is not three segments    *)
(* separated by dots; hdrwf, sigwf, claimswf = FALSE is a segment that    *)
(* does not decode (base64url, then JSON; 64 bytes for the signature).    *)
(* An access token has no secret claim: decoded as a refresh token its    *)
(* secret is the zero value, modelled as 0.                                *)
(*                                                                         *)
(* The clock is read at whole seconds.  The SQLite store executes every   *)
(* statement without an I/O error, except the DELETE behind POST /logout  *)
(* in SpecApi and every statement in SpecFault.                            *)
(*                                                                         *)
(* SpecSig is the signature encoding by itself with scaled-down widths,   *)
(* SpecCatalog the services directory with its reload and lookups,        *)
(* SpecWatch the directory watcher with its debounce timer (SpecWatchLive *)
(* adds fairness), SpecRace two concurrent calls of VerifyAuthorization.  *)
(***************************************************************************)
EXTENDS Integers, Sequences, FiniteSets, Bags, TLC

\* ------------------------------------------------------------------ bounds
MaxLogin == 1
MaxMint == 3
MaxTicks == 1
MaxReq == 2
\* scaled-down signature integers: bytes per integer (32 in the code), bits
\* per byte (8) and bits per base64 character (6)
IntBytes == 2
\* the debounce window in clock steps of the watcher (500 ms in the code) and
\* the number of file-system events
Debounce == 2
MaxEvents == 3
ByteBits == 4
CharBits == 3

\* ------------------------------------------------------- program constants
AuthCodeLifetime == 10
AccessLifetime == 1800
RefreshLifetime == 259200
TestRefreshLifetime == 86400
StatusOK == 200
StatusBadRequest == 400
StatusSeeOther == 303
StatusUnauthorized == 401
StatusConflict == 409
StatusUnsupportedMediaType == 415
StatusInternalServerError == 500

\* ------------------------------------------------------------ configuration
ServerKey == "K1"
AttackerKey == "K2"
IssuerDomain == "consent.example"
ClientAudience == "test-aud"
Handles == {"alice"}
Passwords == {"pw", "bad"}
ServiceNames == {"test", "other", "no-such"}

\* the service catalog loaded at startup: name -> definition.  An audience
\* string is the sequence of its space-separated words: "other" has the
\* audience "other-aud extra".
\* A URL is its part before the query and the set of its query parameters.
Catalog ==
    [test |-> [audience |-> <<"test-aud">>,
               redirect |-> [base |-> "https://test.example/callback", query |-> {}]],
     other |-> [audience |-> <<"other-aud", "extra">>,
                redirect |-> [base |-> "https://other.example/cb", query |-> {<<"state", "x">>}]]]

\* os.ReadDir: the names of the files, sorted by filename
ReadDir(files) == SelectSeq(<<"other", "test">>, LAMBDA name : name \in files)

\* NewDynamicServicesDirectory: the directory after the Load at startup.
\* files are the service files on disk, services the map, pc and pending
\* the position of a running Load, reload whether the watcher has asked for
\* one; old and listed are what the map held and what ReadDir returned when
\* the running Load began; bad are the files that do not parse
NewDynamicServicesDirectory ==
    [files |-> DOMAIN Catalog, services |-> Catalog, pc |-> "idle", pending |-> <<>>,
     reload |-> FALSE, old |-> {}, listed |-> {}, bad |-> {}]

\* watchDir: the watcher after start. queue are the events in
\* watcher.Events, hw the position of handleWatcher ("send" while it is
\* blocked in reload <- struct{}{}), sched the position of scheduleReload
\* ("callback" while callback() runs), timer whether the timer variable is
\* set, armed and left the running timer and the time left on it, c whether
\* a value waits in timer.C.  since is the time since scheduleReload last
\* received from reload (counted up to Debounce), quiet its value when the
\* last callback began, fires the callbacks begun since that receive,
\* events the events so far, dirty whether an event has happened that no
\* callback has begun after.
watchDir ==
    [queue |-> <<>>, hw |-> "select", sched |-> "select", timer |-> "nil", armed |-> FALSE,
     left |-> 0, c |-> FALSE, since |-> Debounce, quiet |-> Debounce, fires |-> 0,
     events |-> 0, dirty |-> FALSE]

\* handles nobody registers
Strangers == {"bob"}
\* Content-Type of a POST /login
ContentTypes == {"form", "json", "other"}

Slots == 1..MaxReq

VARIABLES
    now,        \* wall clock, unix seconds
    ticks,      \* number of clock advances so far
    identity,   \* identity table: set of [handle, secret]
    refresh,    \* refresh table: set of [id, owner, jwt, expiration]
    nextId,     \* next rowid of the refresh table
    minted,     \* number of issuances so far (randomness drawn)
    issued,     \* every token ever minted (history)
    handed,     \* refresh tokens handed to a caller: login 303, refresh 200 (history)
    log,        \* bag of the jwts whose refresh completed successfully (history)
    revoked,    \* jwts deleted by a logout (history)
    slot,       \* in-flight calls: relying-party side and auth-server side
    directory,  \* the services directory: files on disk, loaded map, Load's position
    watcher     \* the directory watcher: queued events, handleWatcher, scheduleReload, timer

vars == <<now, ticks, identity, refresh, nextId, minted, issued, handed,
          log, revoked, slot, directory, watcher>>

\* --------------------------------------------------------------- Go errors
\* An error value: nil, a package-level sentinel made by errors.New, a
\* *validateError carrying a sentinel in its err field, or a service error
\* made by fmt.Errorf("%w: ...", sentinel).
Nil == [type |-> "nil", kind |-> ""]
Sentinel(k) == [type |-> "sentinel", kind |-> k]
ValidateError(k) == [type |-> "validateError", kind |-> k]
Wrapped(k) == [type |-> "wrapped", kind |-> k]

ErrTokenAbsent == Sentinel("TokenAbsent")
ErrTokenInvalid == Sentinel("TokenInvalid")
ErrCSRFInvalid == Sentinel("CSRFInvalid")
ErrNetworkTokenRefresh == Sentinel("NetworkTokenRefresh")
ErrTokenExpired == Sentinel("Expired")

\* errors.Is(err, target): equal, or err unwraps to something that is.
\* fmt.Errorf with %w gives an Unwrap method; validateError declares only
\* Context() and Error(), so the chain stops at it.
ErrorsIs(err, target) ==
    \/ err = target
    \/ err.type = "wrapped" /\ Sentinel(err.kind) = target


\* ------------------------------------------------------------- token codec
\* Server role: holds the signing key, does not enforce audience.
ServerValidator == [role |-> "server", key |-> ServerKey, issuerDomain |-> IssuerDomain, validAudience |-> <<"">>]

\* Client role: holds the public half, enforces its single audience.
ClientValidator == [role |-> "client", key |-> ServerKey, issuerDomain |-> IssuerDomain, validAudience |-> <<ClientAudience>>]

\* a client configured with an audience that contains a space
SpacedValidator == [ClientValidator EXCEPT !.validAudience = <<ClientAudience, "extra">>]

\* variant: every validator enforces audience
ShouldValidateAudience_Always(v) == TRUE

ShouldValidateAudience(v) == v.role = "client"

ValidateDomain(v, iss) == iss = v.issuerDomain

\* strings.Split(claims.Audience, " ") in fromClaims: a string is modelled
\* as the sequence of its space-free words, the list has one one-word string
\* per word
SplitAudience_First(claim) == <<<<claim[1]>>>>

SplitAudience(claim) == [i \in 1..Len(claim) |-> <<claim[i]>>]

\* strings.Join(token.audience, " ") in intoClaims: the words of all the
\* elements in order; the empty list gives the empty string
RECURSIVE JoinAudience(_)
JoinAudience(audience) ==
    IF audience = <<>> THEN <<"">>
    ELSE IF Len(audience) = 1 THEN audience[1]
    ELSE audience[1] \o JoinAudience(Tail(audience))

\* aud is the claim string; slices.Contains(strings.Split(aud, " "), valid)
ValidateAudiences(v, aud) ==
    /\ v.role = "client"
    /\ \E i \in 1..Len(SplitAudience(aud)) : SplitAudience(aud)[i] = v.validAudience

\* ecdsa.Verify succeeds exactly for a signature made with the matching
\* private key over this header and claims
\* variant: the key is not compared
VerifySignature_AnyKey(v, tok) == tok.sigwf

VerifySignature(v, tok) == tok.sigwf /\ tok.key = v.key

verifyHeader(tok) == tok.typ = "JWT" /\ tok.alg = "ES256"

\* variant: exp is tested before iat
validate_ExpFirst(tok, v, t) ==
    IF tok.exp < t THEN "Expired"
    ELSE IF tok.iat > t THEN "NotIssued"
    ELSE IF ~ValidateDomain(v, tok.iss) THEN "InvalidIssuer"
    ELSE IF ShouldValidateAudience(v) /\ ~ValidateAudiences(v, tok.aud) THEN "InvalidAudience"
    ELSE ""

\* claims.validate: the first failing check, "" when all pass
validate(tok, v, t) ==
    IF tok.iat > t THEN "NotIssued"
    ELSE IF tok.exp < t THEN "Expired"
    ELSE IF ~ValidateDomain(v, tok.iss) THEN "InvalidIssuer"
    ELSE IF ShouldValidateAudience(v) /\ ~ValidateAudiences(v, tok.aud) THEN "InvalidAudience"
    ELSE ""

\* variant: the claims segment is decoded before the signature is verified
decodeToken_ClaimsFirst(tok, v, t) ==
    IF ~tok.wf THEN ValidateError("Malformed")
    ELSE IF ~tok.hdrwf THEN ValidateError("Malformed")
    ELSE IF ~tok.claimswf THEN ValidateError("Malformed")
    ELSE IF ~verifyHeader(tok) THEN ValidateError("BadSignature")
    ELSE IF ~VerifySignature(v, tok) THEN ValidateError("BadSignature")
    ELSE IF validate(tok, v, t) # "" THEN ValidateError(validate(tok, v, t))
    ELSE Nil

\* decodeToken: the *validateError it returns, Nil on success
decodeToken(tok, v, t) ==
    IF ~tok.wf THEN ValidateError("Malformed")
    ELSE IF ~tok.hdrwf THEN ValidateError("Malformed")
    ELSE IF ~verifyHeader(tok) THEN ValidateError("BadSignature")
    ELSE IF ~VerifySignature(v, tok) THEN ValidateError("BadSignature")
    ELSE IF ~tok.claimswf THEN ValidateError("Malformed")
    ELSE IF validate(tok, v, t) # "" THEN ValidateError(validate(tok, v, t))
    ELSE Nil

\* Server.IssueRefreshToken at time t; n is the randomness drawn (CSRF
\* secret and signature nonce)
IssueRefreshToken(subject, audience, lifetime, t, n) ==
    [wf |-> TRUE, hdrwf |-> TRUE, sigwf |-> TRUE, claimswf |-> TRUE,
     alg |-> "ES256", typ |-> "JWT", key |-> ServerKey, n |-> n,
     iss |-> IssuerDomain, iat |-> t, exp |-> t + lifetime,
     aud |-> JoinAudience(audience), sub |-> subject, secret |-> n]

\* Server.IssueAccessToken at time t; no secret claim
IssueAccessToken(subject, audience, lifetime, t, n) ==
    [wf |-> TRUE, hdrwf |-> TRUE, sigwf |-> TRUE, claimswf |-> TRUE,
     alg |-> "ES256", typ |-> "JWT", key |-> ServerKey, n |-> n,
     iss |-> IssuerDomain, iat |-> t, exp |-> t + lifetime,
     aud |-> JoinAudience(audience), sub |-> subject, secret |-> 0]

\* a token with acceptable claims signed by a key the validators do not hold
Forged ==
    [wf |-> TRUE, hdrwf |-> TRUE, sigwf |-> TRUE, claimswf |-> TRUE,
     alg |-> "ES256", typ |-> "JWT", key |-> AttackerKey, n |-> 0,
     iss |-> IssuerDomain, iat |-> 0, exp |-> RefreshLifetime * (MaxTicks + 2),
     aud |-> <<ClientAudience>>, sub |-> "alice", secret |-> 0]

\* a string that is not a JWT ("invalid-token")
Garbage == [Forged EXCEPT !.wf = FALSE]

\* strings a caller can put into a cookie or a request body
Known == issued \cup {Forged, Garbage}

\* --------------------------------------------------- identity/refresh store
\* bcrypt.GenerateFromPassword / CompareHashAndPassword
Hash(p) == <<"bcrypt", p>>

CompareHashAndPassword(hash, p) == hash = Hash(p)

\* INSERT INTO refresh (owner, jwt, expiration) SELECT i.id, ?, ? FROM
\* identity i WHERE i.handle=?  -- one row per matching identity, none when
\* the handle is unknown.  identity.id is represented by the unique handle.
\* variant: the INSERT stores no row
InsertRefreshToken_NoRow(tbl, idn, id, tok) == tbl

\* variant: the INSERT adds two rows for the token
InsertRefreshToken_Twice(tbl, idn, id, tok) ==
    tbl \cup {[id |-> k, owner |-> i.handle, jwt |-> tok, expiration |-> tok.exp] :
                 i \in {j \in idn : j.handle = tok.sub}, k \in {id, -id}}

InsertRefreshToken(tbl, idn, id, tok) ==
    tbl \cup {[id |-> id, owner |-> i.handle, jwt |-> tok, expiration |-> tok.exp] :
                 i \in {j \in idn : j.handle = tok.sub}}

\* DELETE FROM refresh WHERE id IN (SELECT r.id FROM refresh r JOIN identity
\* i ON r.owner=i.id WHERE jwt=?); deleted = RowsAffected() # 0
\* variant: the row is reported deleted but stays in the table
DeleteRefreshToken_KeepsRow(tbl, idn, jwt) ==
    [table |-> tbl, deleted |-> \E r \in tbl : r.jwt = jwt]

\* variant: the statement deletes every row of the token's subject
DeleteRefreshToken_Owner(tbl, idn, jwt) ==
    LET hit == {r \in tbl : r.owner = jwt.sub /\ \E i \in idn : r.owner = i.handle}
    IN  [table |-> tbl \ hit, deleted |-> hit # {}]

DeleteRefreshToken(tbl, idn, jwt) ==
    LET hit == {r \in tbl : r.jwt = jwt /\ \E i \in idn : r.owner = i.handle}
    IN  [table |-> tbl \ hit, deleted |-> hit # {}]

\* variant: an unknown account is reported as a bad request
httpStatusFromError_Distinct(err) ==
    IF ErrorsIs(err, Sentinel("InvalidCredentials")) THEN StatusUnauthorized
    ELSE IF ErrorsIs(err, Sentinel("HandleExists")) THEN StatusConflict
    ELSE StatusBadRequest

\* httpStatusFromError
httpStatusFromError(err) ==
    IF ErrorsIs(err, Sentinel("InvalidCredentials")) \/ ErrorsIs(err, Sentinel("AccountNotFound"))
        THEN StatusUnauthorized
    ELSE IF \/ ErrorsIs(err, Sentinel("ServiceNotFound"))
            \/ ErrorsIs(err, Sentinel("TokenInvalid"))
            \/ ErrorsIs(err, Sentinel("TokenNotFound"))
            \/ ErrorsIs(err, Sentinel("InvalidHandle"))
        THEN StatusBadRequest
    ELSE IF ErrorsIs(err, Sentinel("HandleExists")) THEN StatusConflict
    ELSE StatusInternalServerError


\* -------------------------------------------------- relying-party verifier
\* validateAccessToken / validateRefreshToken: cookie is <<>> when the
\* request has no such cookie, <<jwt>> otherwise
validateAccessToken(cookie, t) ==
    IF cookie = <<>> THEN [tok |-> <<>>, err |-> ErrTokenAbsent]
    ELSE IF decodeToken(cookie[1], ClientValidator, t) # Nil
        THEN [tok |-> <<>>, err |-> decodeToken(cookie[1], ClientValidator, t)]
    ELSE [tok |-> cookie, err |-> Nil]

validateRefreshToken(cookie, t) ==
    IF cookie = <<>> THEN [tok |-> <<>>, err |-> ErrTokenAbsent]
    ELSE IF decodeToken(cookie[1], ClientValidator, t) # Nil
        THEN [tok |-> <<>>, err |-> decodeToken(cookie[1], ClientValidator, t)]
    ELSE [tok |-> cookie, err |-> Nil]

\* variant: every validation error is refreshable
errorIsRefreshable_Any(err) == TRUE

errorIsRefreshable(err) ==
    IF ErrorsIs(err, ErrTokenAbsent) THEN TRUE
    ELSE IF ErrorsIs(err, ErrTokenExpired) THEN TRUE
    ELSE FALSE

\* variant: the comparison of the two secrets always passes
csrfMatches_Any(tok, reqCSRFSecret) == TRUE

\* currentCSRFSecret != reqCSRFSecret
csrfMatches(tok, reqCSRFSecret) == tok.secret = reqCSRFSecret

\* what a verifier entry point returns: (token or nil, csrf secret, error)
Outcome(tok, csrf, err) == [tok |-> tok, csrf |-> csrf, err |-> err]

Return(out) == [go |-> FALSE, out |-> out]

\* control reaches the call of c.RefreshTokens
GoRefresh == [go |-> TRUE, out |-> Outcome(<<>>, 0, Nil)]

\* VerifyAuthorization up to the call of RefreshTokens
VerifyAuthorizationPre(a, r, t) ==
    LET va == validateAccessToken(a, t)
        vr == validateRefreshToken(r, t)
    IN  IF va.tok # <<>> THEN Return(Outcome(va.tok, 0, Nil))
        ELSE IF ~errorIsRefreshable(va.err) THEN Return(Outcome(<<>>, 0, ErrTokenInvalid))
        ELSE IF vr.err # Nil
            THEN IF ErrorsIs(vr.err, ErrTokenAbsent)
                    THEN Return(Outcome(<<>>, 0, ErrTokenAbsent))
                    ELSE Return(Outcome(<<>>, 0, ErrTokenInvalid))
        ELSE GoRefresh

\* variant: the access token is looked at before the CSRF secret
VerifyAuthorizationCheckCSRFPre_AccessFirst(a, r, reqCSRFSecret, t) ==
    LET vr == validateRefreshToken(r, t)
        va == validateAccessToken(a, t)
    IN  IF vr.err # Nil THEN Return(Outcome(<<>>, 0, ErrTokenInvalid))
        ELSE IF va.tok # <<>>
            THEN IF ~csrfMatches(vr.tok[1], reqCSRFSecret)
                    THEN Return(Outcome(<<>>, 0, ErrCSRFInvalid))
                    ELSE Return(Outcome(va.tok, vr.tok[1].secret, Nil))
        ELSE IF ~errorIsRefreshable(va.err) THEN Return(Outcome(<<>>, 0, ErrTokenInvalid))
        ELSE GoRefresh

\* VerifyAuthorizationCheckCSRF up to the call of RefreshTokens
VerifyAuthorizationCheckCSRFPre(a, r, reqCSRFSecret, t) ==
    LET vr == validateRefreshToken(r, t)
        va == validateAccessToken(a, t)
    IN  IF vr.err # Nil THEN Return(Outcome(<<>>, 0, ErrTokenInvalid))
        ELSE IF ~csrfMatches(vr.tok[1], reqCSRFSecret) THEN Return(Outcome(<<>>, 0, ErrCSRFInvalid))
        ELSE IF va.tok # <<>> THEN Return(Outcome(va.tok, vr.tok[1].secret, Nil))
        ELSE IF ~errorIsRefreshable(va.err) THEN Return(Outcome(<<>>, 0, ErrTokenInvalid))
        ELSE GoRefresh

\* VerifyAuthorizationGetCSRF after its call of VerifyAuthorization returned
\* out: validates the refresh cookie of the request r and takes its secret
GetCSRFTail(out, r, t) ==
    LET vr == validateRefreshToken(r, t)
    IN  IF out.err # Nil THEN Outcome(out.tok, 0, out.err)
        ELSE IF vr.err # Nil THEN Outcome(<<>>, 0, vr.err)
        ELSE Outcome(out.tok, vr.tok[1].secret, Nil)

\* variant: the returned tokens are taken without decoding them
ClientRefreshTokens_NoDecode(status, respA, respR, t) ==
    IF status # StatusOK THEN [ok |-> FALSE, a |-> <<>>, r |-> <<>>]
    ELSE IF respA = <<>> \/ respR = <<>> THEN [ok |-> FALSE, a |-> <<>>, r |-> <<>>]
    ELSE [ok |-> TRUE, a |-> respA, r |-> respR]

\* Client.RefreshTokens once the POST has come back: status is 0 when
\* http.Post returned an error
ClientRefreshTokens(status, respA, respR, t) ==
    IF status # StatusOK THEN [ok |-> FALSE, a |-> <<>>, r |-> <<>>]
    ELSE IF respA = <<>> \/ respR = <<>> THEN [ok |-> FALSE, a |-> <<>>, r |-> <<>>]
    ELSE IF decodeToken(respA[1], ClientValidator, t) # Nil THEN [ok |-> FALSE, a |-> <<>>, r |-> <<>>]
    ELSE IF decodeToken(respR[1], ClientValidator, t) # Nil THEN [ok |-> FALSE, a |-> <<>>, r |-> <<>>]
    ELSE [ok |-> TRUE, a |-> respA, r |-> respR]

\* the response HandleAuthorizationCode writes: code is <<>> when the query
\* has no auth_code (RefreshTokens is not called then), rt is what
\* RefreshTokens returned; set says whether SetTokenCookies ran
HandleAuthorizationCode(code, rt) ==
    IF code = <<>> THEN [code |-> StatusSeeOther, location |-> "/", set |-> FALSE]
    ELSE IF ~rt.ok THEN [code |-> StatusSeeOther, location |-> "/", set |-> FALSE]
    ELSE [code |-> StatusSeeOther, location |-> "/", set |-> TRUE]

\* variant: CheckCSRF hands back the secret it was called with
AfterRefresh_OldSecret(mode, rt, r, t) ==
    IF mode = "authcode" THEN Outcome(<<>>, 0, Nil)
    ELSE IF ~rt.ok THEN Outcome(<<>>, 0, ErrNetworkTokenRefresh)
    ELSE IF mode = "verify" THEN Outcome(rt.a, 0, Nil)
    ELSE IF mode = "getcsrf" THEN GetCSRFTail(Outcome(rt.a, 0, Nil), r, t)
    ELSE Outcome(rt.a, r[1].secret, Nil)

\* the tail of each entry point after RefreshTokens returned rt
AfterRefresh(mode, rt, r, t) ==
    IF mode = "authcode" THEN Outcome(<<>>, 0, Nil)
    ELSE IF ~rt.ok THEN Outcome(<<>>, 0, ErrNetworkTokenRefresh)
    ELSE IF mode = "verify" THEN Outcome(rt.a, 0, Nil)
    ELSE IF mode = "getcsrf" THEN GetCSRFTail(Outcome(rt.a, 0, Nil), r, t)
    ELSE Outcome(rt.a, rt.r[1].secret, Nil)


\* variant: MaxAge is the token's whole lifetime
SetTokenCookies_Lifetime(accessToken, refreshToken, t) ==
    [a |-> [value |-> accessToken, maxAge |-> accessToken.exp - accessToken.iat],
     r |-> [value |-> refreshToken, maxAge |-> refreshToken.exp - refreshToken.iat]]

\* Client.SetTokenCookies at time t: the two cookies added to the response,
\* MaxAge = int(Expiration().Sub(now).Seconds())
SetTokenCookies(accessToken, refreshToken, t) ==
    [a |-> [value |-> accessToken, maxAge |-> accessToken.exp - t],
     r |-> [value |-> refreshToken, maxAge |-> refreshToken.exp - t]]


\* --------------------------------------------------------------- the state
\* A slot is one call in flight.  Relying-party side: mode, the request's
\* cookies a and r (r is the auth_code for "authcode"), the provided CSRF
\* secret, the errors of the two cookie validations at the call, whether a
\* POST was sent and what came back, and on return the outcome and the
\* cookies written (value and MaxAge).  Auth-server
\* side: the position inside Service.RefreshTokens, the presented jwt, the
\* decode error, the delete result, the minted pair, the error and status.
\* stored0, fresh0 and late record whether the jwt was stored, decodable
\* and already consumed when the request was sent; hadRow and rows what the
\* store held and gained as it was served.
\* no decoded token / no arguments of Issue
NoToken == [sub |-> "", iss |-> "", aud |-> <<>>, secret |-> 0]

NoInput == [kind |-> "none", sub |-> "", aud |-> <<>>, lifetime |-> 0]

\* no request body / no Location header
NoRequest == [ctype |-> "none", wf |-> TRUE, handle |-> "", secret |-> "", service |-> ""]

NoURL == [base |-> "", query |-> {}]

Free ==
    [mode |-> "free", role |-> "none", vaud |-> <<>>, dec |-> NoToken, inp |-> NoInput, sent |-> NoRequest, loc |-> NoURL, fault |-> FALSE, gone0 |-> FALSE, cpc |-> "idle", a |-> <<>>, r |-> <<>>, csrfIn |-> 0,
     aerr |-> Nil, rerr |-> Nil, posted |-> FALSE,
     got |-> [status |-> 0, a |-> <<>>, r |-> <<>>], out |-> Outcome(<<>>, 0, Nil),
     setA |-> <<>>, setR |-> <<>>, maxA |-> 0, maxR |-> 0,
     spc |-> "none", tok |-> Garbage, derr |-> Nil, deleted |-> FALSE,
     newA |-> <<>>, newR |-> <<>>, serr |-> Nil, status |-> 0,
     stored0 |-> FALSE, fresh0 |-> FALSE, late |-> FALSE, hadRow |-> FALSE, rows |-> 0,
     sigIn |-> <<0, 0>>, sigEnc |-> <<>>, sigOut |-> <<0, 0>>,
     resp |-> [code |-> 0, location |-> "", set |-> FALSE]]

\* jwts whose refresh has completed successfully
Consumed == BagToSet(log)

\* authorization codes handed out by successful logins
Logins == {k \in issued : k.exp - k.iat = AuthCodeLifetime}

Stored(jwt) == \E row \in refresh : row.jwt = jwt

Cookies == {<<>>} \cup {<<k>> : k \in Known}

Init ==
    /\ now = 0
    /\ ticks = 0
    /\ identity = {}
    /\ refresh = {}
    /\ nextId = 1
    /\ minted = 0
    /\ issued = {}
    /\ handed = {}
    /\ log = EmptyBag
    /\ revoked = {}
    /\ directory = NewDynamicServicesDirectory
    /\ watcher = watchDir
    /\ slot = [s \in Slots |-> Free]

\* ------------------------------------------------------------------- clock
\* time passes until some token has just expired
Tick ==
    /\ ticks < MaxTicks
    /\ \E k \in issued :
          /\ k.exp + 1 > now
          /\ now' = k.exp + 1
    /\ ticks' = ticks + 1
    /\ UNCHANGED <<watcher, directory, identity, refresh, nextId, minted, issued, handed, log, revoked, slot>>

\* ------------------------------------------------------------- auth server
\* the slot of a server operation that is answered in one step
Answered(mode, err, status, code) ==
    [Free EXCEPT !.mode = mode, !.cpc = "ret", !.spc = "done", !.serr = err,
                 !.status = status, !.newR = code]

\* INSERT INTO identity (handle, secret) VALUES (?, ?) on a table whose
\* handle column is UNIQUE: unique = TRUE is the error "UNIQUE constraint
\* failed"
\* variant: the INSERT replaces the row of the handle
InsertIdentity_Replace(tbl, handle, hash) ==
    [table |-> {i \in tbl : i.handle # handle} \cup {[handle |-> handle, secret |-> hash]},
     unique |-> FALSE]

InsertIdentity(tbl, handle, hash) ==
    IF \E i \in tbl : i.handle = handle
        THEN [table |-> tbl, unique |-> TRUE]
        ELSE [table |-> tbl \cup {[handle |-> handle, secret |-> hash]}, unique |-> FALSE]

\* Service.Register
Register(s, handle, password) ==
    /\ slot[s].mode = "free"
    /\ LET sent == [NoRequest EXCEPT !.ctype = "json", !.handle = handle, !.secret = password]
           ins == InsertIdentity(identity, handle, Hash(password))
           err == IF handle = "" THEN Sentinel("InvalidHandle")
                  ELSE IF ins.unique THEN Sentinel("HandleExists")
                  ELSE Nil
       IN  /\ identity' = IF handle = "" THEN identity ELSE ins.table
           /\ slot' = [slot EXCEPT ![s] =
                          [Answered("register", err,
                                    IF err # Nil THEN httpStatusFromError(err) ELSE StatusOK, <<>>)
                              EXCEPT !.sent = sent]]
    /\ UNCHANGED <<watcher, directory, now, ticks, refresh, nextId, minted, issued, handed, log, revoked>>

\* buildRedirectURL: q.Set("auth_code", refreshToken) replaces every value
\* of that key, q.Encode() writes all parameters back
buildRedirectURL(redirect, refreshToken) ==
    [redirect EXCEPT !.query = {q \in @ : q[1] # "auth_code"} \cup {<<"auth_code", refreshToken>>}]

\* Service.Login up to the catalog lookup: the error it returns, if any
LoginError(handle, secret, serviceName) ==
    LET rowsOf == {i \in identity : i.handle = handle}
    IN  IF rowsOf = {} THEN Wrapped("AccountNotFound")
        ELSE IF \A i \in rowsOf : ~CompareHashAndPassword(i.secret, secret)
            THEN Sentinel("InvalidCredentials")
        ELSE IF serviceName \notin DOMAIN Catalog THEN Wrapped("ServiceNotFound")
        ELSE Nil

\* a response of POST /login that is a status line only; sent is the request
\* as the caller sent it
LoginRefused(s, sent, err, status) ==
    /\ slot' = [slot EXCEPT ![s] = [Answered("login", err, status, <<>>) EXCEPT !.sent = sent]]
    /\ UNCHANGED <<refresh, nextId, minted, issued, handed>>

LoginFail(s, sent, err) == LoginRefused(s, sent, err, httpStatusFromError(err))

\* variant: the code is issued and stored before the service is looked up
Login_StoreFirst(s, sent, handle, secret, serviceName) ==
    /\ slot[s].mode = "free"
    /\ LET err == LoginError(handle, secret, serviceName)
           aud == IF serviceName \in DOMAIN Catalog THEN Catalog[serviceName].audience ELSE <<"">>
           code == IssueRefreshToken(handle, <<aud>>, AuthCodeLifetime, now, minted + 1)
       IN  IF err # Nil /\ err # Wrapped("ServiceNotFound") THEN LoginFail(s, sent, err)
           ELSE /\ minted < MaxMint
                /\ Cardinality(Logins) < MaxLogin
                /\ minted' = minted + 1
                /\ issued' = issued \cup {code}
                /\ refresh' = InsertRefreshToken(refresh, identity, nextId, code)
                /\ nextId' = nextId + 1
                /\ handed' = handed \cup {code}
                /\ slot' = [slot EXCEPT ![s] =
                                IF err # Nil
                                   THEN [Answered("login", err, httpStatusFromError(err), <<>>)
                                            EXCEPT !.sent = sent]
                                   ELSE [Answered("login", Nil, StatusSeeOther, <<code>>)
                                            EXCEPT !.sent = sent,
                                                   !.loc = buildRedirectURL(Catalog[serviceName].redirect, <<code>>)]]
    /\ UNCHANGED <<watcher, directory, now, ticks, identity, log, revoked>>

\* Service.Login, and the handler's redirect to the URL it returns, which
\* carries auth_code = code
Login(s, sent, handle, secret, serviceName) ==
    /\ slot[s].mode = "free"
    /\ LET err == LoginError(handle, secret, serviceName)
           code == IssueRefreshToken(handle, <<Catalog[serviceName].audience>>,
                                     AuthCodeLifetime, now, minted + 1)
       IN  IF err # Nil THEN LoginFail(s, sent, err)
           ELSE /\ minted < MaxMint
                /\ Cardinality(Logins) < MaxLogin
                /\ minted' = minted + 1
                /\ issued' = issued \cup {code}
                /\ refresh' = InsertRefreshToken(refresh, identity, nextId, code)
                /\ nextId' = nextId + 1
                /\ handed' = handed \cup {code}
                /\ slot' = [slot EXCEPT ![s] =
                                [Answered("login", Nil, StatusSeeOther, <<code>>)
                                    EXCEPT !.sent = sent,
                                           !.loc = buildRedirectURL(Catalog[serviceName].redirect, <<code>>)]]
    /\ UNCHANGED <<watcher, directory, now, ticks, identity, log, revoked>>

\* API.Login: the handler of POST /login.  wf = FALSE is a body that does
\* not parse (r.FormValue then yields "" for every field).  In the form
\* case the parsed fields go to a variable declared inside the case, the
\* request that reaches Service.Login is the zero value declared before the
\* switch.
APILogin(s, ctype, wf, handle, secret, service) ==
    LET sent == [ctype |-> ctype, wf |-> wf, handle |-> handle, secret |-> secret,
                 service |-> service]
        form == IF wf THEN sent ELSE NoRequest
        req == NoRequest
    IN  /\ slot[s].mode = "free"
        /\ IF ctype = "form"
              THEN IF form.handle = "" \/ form.secret = "" \/ form.service = ""
                      THEN /\ LoginRefused(s, sent, Nil, StatusBadRequest)
                           /\ UNCHANGED <<watcher, directory, now, ticks, identity, log, revoked>>
                      ELSE Login(s, sent, req.handle, req.secret, req.service)
           ELSE IF ctype = "json"
              THEN IF ~wf
                      THEN /\ LoginRefused(s, sent, Nil, StatusBadRequest)
                           /\ UNCHANGED <<watcher, directory, now, ticks, identity, log, revoked>>
                      ELSE Login(s, sent, handle, secret, service)
           ELSE /\ LoginRefused(s, sent, Nil, StatusUnsupportedMediaType)
                /\ UNCHANGED <<watcher, directory, now, ticks, identity, log, revoked>>

\* SQLiteStore.DeleteRefreshToken / DeleteRefresh as the handlers of POST
\* /logout see it: with fault, db.Exec returns an error, nothing is deleted
\* and the result is (false, err)
ExecDelete(jwt, fault) ==
    IF fault THEN [table |-> refresh, deleted |-> FALSE, err |-> TRUE]
    ELSE [table |-> DeleteRefreshToken(refresh, identity, jwt).table,
          deleted |-> DeleteRefreshToken(refresh, identity, jwt).deleted, err |-> FALSE]

\* the slot of an answered POST /logout
LoggedOut(mode, jwt, fault, del, err, status) ==
    [Answered(mode, err, status, <<>>)
        EXCEPT !.tok = jwt, !.fault = fault, !.deleted = del.deleted, !.gone0 = (jwt \in revoked)]

\* Service.RevokeRefreshToken
RevokeRefreshToken(del) ==
    IF del.err THEN Wrapped("Internal")
    ELSE IF ~del.deleted THEN Sentinel("TokenNotFound")
    ELSE Nil

\* API.Logout: Service.RevokeRefreshToken behind POST /logout
Logout(s, jwt, fault) ==
    /\ slot[s].mode = "free"
    /\ LET del == ExecDelete(jwt, fault)
           err == RevokeRefreshToken(del)
       IN  /\ refresh' = del.table
           /\ revoked' = IF del.deleted THEN revoked \cup {jwt} ELSE revoked
           /\ slot' = [slot EXCEPT ![s] =
                          LoggedOut("logout", jwt, fault, del, err,
                                    IF err # Nil THEN httpStatusFromError(err) ELSE StatusOK)]
    /\ UNCHANGED <<watcher, directory, now, ticks, identity, nextId, minted, issued, handed, log>>

\* Logout of package pkg/api: the handler tests ok before err
PkgLogout(s, jwt, fault) ==
    /\ slot[s].mode = "free"
    /\ LET del == ExecDelete(jwt, fault)
       IN  /\ refresh' = del.table
           /\ revoked' = IF del.deleted THEN revoked \cup {jwt} ELSE revoked
           /\ slot' = [slot EXCEPT ![s] =
                          LoggedOut("pkglogout", jwt, fault, del, Nil,
                                    IF ~del.deleted THEN StatusBadRequest
                                    ELSE IF del.err THEN StatusInternalServerError
                                    ELSE StatusOK)]
    /\ UNCHANGED <<watcher, directory, now, ticks, identity, nextId, minted, issued, handed, log>>

\* the response of POST /api/refresh is written: a bare HTTP caller has it
\* at once, the relying party's RefreshTokens still has to read it
Answer(sl) == IF sl.mode = "post" THEN "ret" ELSE sl.cpc

\* Service.RefreshTokens, step 1: token.Decode with the server validator
SrvDecode(s) ==
    /\ slot[s].spc = "decode"
    /\ LET e == decodeToken(slot[s].tok, ServerValidator, now)
       IN  IF e # Nil
              THEN slot' = [slot EXCEPT ![s].spc = "done", ![s].derr = e,
                                        ![s].cpc = Answer(slot[s]),
                                        ![s].serr = Wrapped("TokenInvalid"),
                                        ![s].status = httpStatusFromError(Wrapped("TokenInvalid"))]
              ELSE slot' = [slot EXCEPT ![s].spc = "delete"]
    /\ UNCHANGED <<watcher, directory, now, ticks, identity, refresh, nextId, minted, issued, handed, log, revoked>>

\* variant: the deleted flag is not tested
SrvDelete_NoTest(s) ==
    /\ slot[s].spc = "delete"
    /\ refresh' = DeleteRefreshToken(refresh, identity, slot[s].tok).table
    /\ slot' = [slot EXCEPT ![s].spc = "issue", ![s].hadRow = Stored(slot[s].tok),
                            ![s].deleted = Stored(slot[s].tok)]
    /\ UNCHANGED <<watcher, directory, now, ticks, identity, nextId, minted, issued, handed, log, revoked>>

\* step 2: deleteRefresh, then the deleted test
SrvDelete(s) ==
    /\ slot[s].spc = "delete"
    /\ LET del == DeleteRefreshToken(refresh, identity, slot[s].tok)
       IN  /\ refresh' = del.table
           /\ IF ~del.deleted
                 THEN slot' = [slot EXCEPT ![s].spc = "done", ![s].hadRow = Stored(slot[s].tok),
                                           ![s].cpc = Answer(slot[s]),
                                           ![s].serr = Sentinel("TokenNotFound"),
                                           ![s].status = httpStatusFromError(Sentinel("TokenNotFound"))]
                 ELSE slot' = [slot EXCEPT ![s].spc = "issue", ![s].hadRow = Stored(slot[s].tok),
                                           ![s].deleted = TRUE]
    /\ UNCHANGED <<watcher, directory, now, ticks, identity, nextId, minted, issued, handed, log, revoked>>

\* step 3: IssueAccessToken and IssueRefreshToken with the subject and
\* audience of the presented token
SrvIssue(s) ==
    /\ slot[s].spc = "issue"
    /\ minted < MaxMint
    /\ LET newA == IssueAccessToken(slot[s].tok.sub, SplitAudience(slot[s].tok.aud),
                                    AccessLifetime, now, minted + 1)
           newR == IssueRefreshToken(slot[s].tok.sub, SplitAudience(slot[s].tok.aud),
                                     RefreshLifetime, now, minted + 1)
       IN  /\ slot' = [slot EXCEPT ![s].spc = "insert", ![s].newA = <<newA>>, ![s].newR = <<newR>>]
           /\ issued' = issued \cup {newA, newR}
    /\ minted' = minted + 1
    /\ UNCHANGED <<watcher, directory, now, ticks, identity, refresh, nextId, handed, log, revoked>>

\* step 4: insertRefresh, then return the encoded pair
SrvInsert(s) ==
    /\ slot[s].spc = "insert"
    /\ refresh' = InsertRefreshToken(refresh, identity, nextId, slot[s].newR[1])
    /\ nextId' = nextId + 1
    /\ handed' = handed \cup {slot[s].newR[1]}
    /\ log' = log (+) SetToBag({slot[s].tok})
    /\ slot' = [slot EXCEPT ![s].spc = "done", ![s].status = StatusOK,
                            ![s].cpc = Answer(slot[s]),
                            ![s].rows = Cardinality(refresh') - Cardinality(refresh)]
    /\ UNCHANGED <<watcher, directory, now, ticks, identity, minted, issued, revoked>>


\* ----------------------------------------------------------- codec alone
\* the strings given to Decode: every combination of segment shapes,
\* header values, signing key and claims, at time AuthCodeLifetime
CodecTokens ==
    {[wf |-> w, hdrwf |-> h, sigwf |-> g, claimswf |-> c, alg |-> alg, typ |-> typ, key |-> key,
      n |-> 0, iss |-> iss, iat |-> iat, exp |-> exp, aud |-> aud, sub |-> "alice", secret |-> 1] :
        w \in BOOLEAN, h \in BOOLEAN, g \in BOOLEAN, c \in BOOLEAN,
        alg \in {"ES256", "none"}, typ \in {"JWT", "JWS"}, key \in {ServerKey, AttackerKey},
        iss \in {IssuerDomain, "evil.example"}, iat \in {0, AccessLifetime},
        exp \in {0, RefreshLifetime},
        aud \in {<<ClientAudience>>, <<"other-aud", ClientAudience>>, <<"other-aud">>, <<"">>}}

CodecInit ==
    /\ now = AuthCodeLifetime
    /\ ticks = 0
    /\ identity = {}
    /\ refresh = {}
    /\ nextId = 1
    /\ minted = 0
    /\ issued = {}
    /\ handed = {}
    /\ log = EmptyBag
    /\ revoked = {}
    /\ directory = NewDynamicServicesDirectory
    /\ watcher = watchDir
    /\ \E t \in CodecTokens :
          slot = [s \in Slots |-> IF s = 1 THEN [Free EXCEPT !.tok = t] ELSE Free]

\* AccessToken.fromClaims / RefreshToken.fromClaims: the fields of the
\* decoded token; AccessTokenClaims has no secret
\* variant: the secret claim is not copied
fromClaims_NoSecret(kind, tok) ==
    [sub |-> tok.sub, iss |-> tok.iss, aud |-> SplitAudience(tok.aud), secret |-> 0]

fromClaims(kind, tok) ==
    [sub |-> tok.sub, iss |-> tok.iss, aud |-> SplitAudience(tok.aud),
     secret |-> IF kind = "refresh" THEN tok.secret ELSE 0]

\* AccessToken.Decode / RefreshToken.Decode of the string in the slot under
\* validator v
Decode(s, kind, v) ==
    /\ slot[s].mode \in {"free", "issued"}
    /\ LET e == decodeToken(slot[s].tok, v, now)
       IN  slot' = [slot EXCEPT ![s].mode = "decode", ![s].cpc = "ret", ![s].role = v.role,
                                ![s].vaud = v.validAudience,
                                ![s].derr = e,
                                ![s].dec = IF e = Nil THEN fromClaims(kind, slot[s].tok) ELSE NoToken,
                                ![s].inp = [slot[s].inp EXCEPT !.kind = kind]]
    /\ UNCHANGED <<watcher, directory, now, ticks, identity, refresh, nextId, minted, issued, handed, log, revoked>>

\* Server.IssueAccessToken / IssueRefreshToken with the given arguments
CodecIssue(s, kind, subject, audience, lifetime) ==
    /\ slot[s].mode = "free"
    /\ minted = 0
    /\ minted' = 1
    /\ slot' = [slot EXCEPT ![s] =
                   [Free EXCEPT !.mode = "issued",
                                !.inp = [kind |-> kind, sub |-> subject, aud |-> audience,
                                         lifetime |-> lifetime],
                                !.tok = IF kind = "refresh"
                                           THEN IssueRefreshToken(subject, audience, lifetime, now, 1)
                                           ELSE IssueAccessToken(subject, audience, lifetime, now, 1)]]
    /\ UNCHANGED <<watcher, directory, now, ticks, identity, refresh, nextId, issued, handed, log, revoked>>

\* audience lists given to Issue: one element, two elements, an element
\* with a space in it
AudienceLists ==
    {<<<<ClientAudience>>>>, <<<<"other-aud">>, <<ClientAudience>>>>,
     <<<<ClientAudience, "extra">>>>, <<<<"other-aud", "extra">>, <<ClientAudience>>>>}

\* the codec by itself: decode a given string, or issue a token and decode
\* it, under each validator
CodecNext ==
    \/ \E kind \in {"access", "refresh"}, v \in {ServerValidator, ClientValidator, SpacedValidator} :
          Decode(1, kind, v)
    \/ \E kind \in {"access", "refresh"}, sub \in Handles \cup Strangers, aud \in AudienceLists,
          lifetime \in {AuthCodeLifetime, AccessLifetime} : CodecIssue(1, kind, sub, aud, lifetime)

SpecCodec == CodecInit /\ [][CodecNext]_vars

\* ------------------------------------------------------ signature encoding
ByteBase == 2 ^ ByteBits

\* big.Int.Bytes: the big-endian bytes of n without leading zeros; empty
\* for 0
RECURSIVE Bytes(_)
Bytes(n) == IF n = 0 THEN <<>> ELSE Append(Bytes(n \div ByteBase), n % ByteBase)

\* big.Int.SetBytes: the bytes read as a big-endian unsigned integer
RECURSIVE SetBytes(_)
SetBytes(buf) ==
    IF buf = <<>> THEN 0
    ELSE SetBytes(SubSeq(buf, 1, Len(buf) - 1)) * ByteBase + buf[Len(buf)]

\* the bits of one number, most significant first, width given
RECURSIVE BitsOf(_, _)
BitsOf(n, width) ==
    IF width = 0 THEN <<>> ELSE Append(BitsOf(n \div 2, width - 1), n % 2)

RECURSIVE Bits(_, _)
Bits(buf, width) ==
    IF buf = <<>> THEN <<>> ELSE BitsOf(buf[1], width) \o Bits(Tail(buf), width)

RECURSIVE FromBits(_)
FromBits(bits) ==
    IF bits = <<>> THEN 0
    ELSE FromBits(SubSeq(bits, 1, Len(bits) - 1)) * 2 + bits[Len(bits)]

\* the bit string cut into groups of the given width; a short last group
\* is filled with zero bits on the right
RECURSIVE Groups(_, _)
Groups(bits, width) ==
    IF bits = <<>> THEN <<>>
    ELSE IF Len(bits) < width
            THEN <<FromBits(bits \o [i \in 1..(width - Len(bits)) |-> 0])>>
            ELSE <<FromBits(SubSeq(bits, 1, width))>> \o
                 Groups(SubSeq(bits, width + 1, Len(bits)), width)

\* base64.RawURLEncoding.EncodeToString: one character per CharBits bits,
\* no padding characters
EncodeToString(buf) == Groups(Bits(buf, ByteBits), CharBits)

\* base64.RawURLEncoding.DecodeString: the whole bytes held by the
\* characters; trailing bits that do not fill a byte are dropped
DecodeString(str) ==
    LET bits == Bits(str, CharBits)
        n == Len(bits) \div ByteBits
    IN  [i \in 1..n |-> FromBits(SubSeq(bits, (i - 1) * ByteBits + 1, i * ByteBits))]

\* variant: copy(signature[0:len(rBytes)], rBytes), left-aligned
SignatureBytes_LeftAligned(r, sv) ==
    [i \in 1..(2 * IntBytes) |->
        IF i <= IntBytes
            THEN IF i <= Len(Bytes(r)) THEN Bytes(r)[i] ELSE 0
            ELSE IF i - IntBytes <= Len(Bytes(sv)) THEN Bytes(sv)[i - IntBytes] ELSE 0]

\* the buffer of encodeSignature: make([]byte, 64), then
\* copy(signature[32-len(rBytes):32], rBytes) and
\* copy(signature[64-len(sBytes):64], sBytes)
SignatureBytes(r, sv) ==
    [i \in 1..(2 * IntBytes) |->
        IF i <= IntBytes
            THEN IF i > IntBytes - Len(Bytes(r))
                    THEN Bytes(r)[i - (IntBytes - Len(Bytes(r)))] ELSE 0
            ELSE IF i > 2 * IntBytes - Len(Bytes(sv))
                    THEN Bytes(sv)[i - (2 * IntBytes - Len(Bytes(sv)))] ELSE 0]

encodeSignature(r, sv) == EncodeToString(SignatureBytes(r, sv))

\* decodeSignature: a buffer that is not 64 bytes long is an error (given
\* as <<-1, -1>>), else r and s are read from the two halves
decodeSignature(signature) ==
    IF Len(signature) # 2 * IntBytes THEN <<-1, -1>>
    ELSE <<SetBytes(SubSeq(signature, 1, IntBytes)),
           SetBytes(SubSeq(signature, IntBytes + 1, 2 * IntBytes))>>

\* the integers a signature can hold: [0, 2^256) in the code
SigInts == 0..(ByteBase ^ IntBytes - 1)

SigInit ==
    /\ now = 0
    /\ ticks = 0
    /\ identity = {}
    /\ refresh = {}
    /\ nextId = 1
    /\ minted = 0
    /\ issued = {}
    /\ handed = {}
    /\ log = EmptyBag
    /\ revoked = {}
    /\ directory = NewDynamicServicesDirectory
    /\ watcher = watchDir
    /\ slot = [s \in Slots |-> Free]

\* the tail of Server.Sign: encodeSignature(r, s)
Sign(s, r, sv) ==
    /\ slot[s].mode = "free"
    /\ slot' = [slot EXCEPT ![s].mode = "signed", ![s].sigIn = <<r, sv>>,
                            ![s].sigEnc = encodeSignature(r, sv)]
    /\ UNCHANGED <<watcher, directory, now, ticks, identity, refresh, nextId, minted, issued, handed, log, revoked>>

\* the head of verifySignature: DecodeString, then decodeSignature
Unsign(s) ==
    /\ slot[s].mode = "signed"
    /\ slot' = [slot EXCEPT ![s].mode = "unsigned",
                            ![s].sigOut = decodeSignature(DecodeString(slot[s].sigEnc))]
    /\ UNCHANGED <<watcher, directory, now, ticks, identity, refresh, nextId, minted, issued, handed, log, revoked>>

SigNext ==
    \/ slot[1].mode = "free" /\ \E r \in SigInts, sv \in SigInts : Sign(1, r, sv)
    \/ Unsign(1)

SpecSig == SigInit /\ [][SigNext]_vars


\* ------------------------------------------------- store errors, API.Refresh
\* the slot of a request that the service layer fails with ErrInternal
\* because a statement of the store returned an error
Failed(sl) ==
    [sl EXCEPT !.cpc = Answer(sl), !.spc = "done", !.fault = TRUE,
               !.serr = Wrapped("Internal"),
               !.status = httpStatusFromError(Wrapped("Internal")),
               !.newA = <<>>, !.newR = <<>>]

\* Service.Register when InsertIdentity fails for a reason other than the
\* UNIQUE constraint
RegisterFault(s, handle, password) ==
    /\ slot[s].mode = "free"
    /\ handle # ""
    /\ slot' = [slot EXCEPT ![s] =
                   Failed([Answered("register", Nil, 0, <<>>)
                             EXCEPT !.sent = [NoRequest EXCEPT !.ctype = "json", !.handle = handle,
                                                               !.secret = password]])]
    /\ UNCHANGED <<watcher, directory, now, ticks, identity, refresh, nextId, minted, issued, handed, log, revoked>>

\* Service.Login behind a JSON POST /login when statement stmt of the store
\* fails: the SELECT of GetSecret (an error other than sql.ErrNoRows) or the
\* INSERT of the issued code
LoginFault(s, handle, secret, serviceName, stmt) ==
    /\ slot[s].mode = "free"
    /\ \/ /\ stmt = "select"
          /\ UNCHANGED minted
       \/ /\ stmt = "insert"
          /\ LoginError(handle, secret, serviceName) = Nil
          /\ minted < MaxMint
          /\ minted' = minted + 1
    /\ slot' = [slot EXCEPT ![s] =
                   Failed([Answered("login", Nil, 0, <<>>)
                             EXCEPT !.sent = [ctype |-> "json", wf |-> TRUE, handle |-> handle,
                                              secret |-> secret, service |-> serviceName]])]
    /\ UNCHANGED <<watcher, directory, now, ticks, identity, refresh, nextId, issued, handed, log, revoked>>

\* Service.RefreshTokens when deleteRefresh returns an error
SrvDeleteFault(s) ==
    /\ slot[s].spc = "delete"
    /\ slot' = [slot EXCEPT ![s] = Failed(slot[s])]
    /\ UNCHANGED <<watcher, directory, now, ticks, identity, refresh, nextId, minted, issued, handed, log, revoked>>

\* Service.RefreshTokens when insertRefresh returns an error: the presented
\* token's row is gone, the new pair is dropped
SrvInsertFault(s) ==
    /\ slot[s].spc = "insert"
    /\ slot' = [slot EXCEPT ![s] = Failed(slot[s])]
    /\ UNCHANGED <<watcher, directory, now, ticks, identity, refresh, nextId, minted, issued, handed, log, revoked>>

\* the slot of an answered API.Refresh
APIRefreshed(jwt, f, e, del, status, a, r) ==
    [Free EXCEPT !.mode = "apirefresh", !.cpc = "ret", !.spc = "done", !.r = <<jwt>>, !.tok = jwt,
                 !.fault = (f # "none"), !.derr = e, !.deleted = del, !.status = status,
                 !.newA = a, !.newR = r, !.stored0 = Stored(jwt), !.gone0 = (jwt \in revoked),
                 !.late = (jwt \in Consumed)]

\* API.Refresh of internal/api/refresh.go, the handler that decodes,
\* deletes, issues and inserts by itself; f names the statement of the
\* store that fails.  deleteRefresh returns (false, err) on an error, and
\* the handler tests ok before err.
APIRefresh(s, jwt, f) ==
    /\ slot[s].mode = "free"
    /\ LET e == decodeToken(jwt, ServerValidator, now)
           del == ExecDelete(jwt, f = "delete")
           newA == IssueAccessToken(jwt.sub, SplitAudience(jwt.aud), AccessLifetime, now, minted + 1)
           newR == IssueRefreshToken(jwt.sub, SplitAudience(jwt.aud), RefreshLifetime, now, minted + 1)
       IN  IF e # Nil
              THEN /\ slot' = [slot EXCEPT ![s] = APIRefreshed(jwt, "none", e, FALSE, StatusBadRequest, <<>>, <<>>)]
                   /\ f = "none"
                   /\ UNCHANGED <<refresh, nextId, minted, issued, handed, log>>
           ELSE IF ~del.deleted
              THEN /\ slot' = [slot EXCEPT ![s] = APIRefreshed(jwt, f, e, FALSE, StatusBadRequest, <<>>, <<>>)]
                   /\ f \in {"none", "delete"}
                   /\ UNCHANGED <<refresh, nextId, minted, issued, handed, log>>
           ELSE IF del.err
              THEN /\ slot' = [slot EXCEPT ![s] = APIRefreshed(jwt, f, e, TRUE, StatusInternalServerError, <<>>, <<>>)]
                   /\ UNCHANGED <<refresh, nextId, minted, issued, handed, log>>
           ELSE /\ f \in {"none", "insert"}
                /\ minted < MaxMint
                /\ minted' = minted + 1
                /\ IF f = "insert"
                      THEN /\ refresh' = del.table
                           /\ slot' = [slot EXCEPT ![s] =
                                  APIRefreshed(jwt, f, e, TRUE, StatusInternalServerError, <<>>, <<>>)]
                           /\ UNCHANGED <<nextId, issued, handed, log>>
                      ELSE /\ refresh' = InsertRefreshToken(del.table, identity, nextId, newR)
                           /\ nextId' = nextId + 1
                           /\ issued' = issued \cup {newA, newR}
                           /\ handed' = handed \cup {newR}
                           /\ log' = log (+) SetToBag({jwt})
                           /\ slot' = [slot EXCEPT ![s] =
                                  APIRefreshed(jwt, f, e, TRUE, StatusOK, <<newA>>, <<newR>>)]
    /\ UNCHANGED <<watcher, directory, now, ticks, identity, revoked>>

\* ----------------------------------------------------- relying-party calls
\* the slot of a call that returned without refreshing
Returned(mode, a, r, csrf, out) ==
    [Free EXCEPT !.mode = mode, !.cpc = "ret", !.a = a, !.r = r, !.csrfIn = csrf,
                 !.aerr = validateAccessToken(a, now).err,
                 !.rerr = validateRefreshToken(r, now).err, !.out = out]

\* the slot of a call that POSTs jwt to /api/refresh
Posted(mode, a, r, csrf, jwt) ==
    [Free EXCEPT !.mode = mode, !.cpc = "wait", !.a = a, !.r = r, !.csrfIn = csrf,
                 !.aerr = validateAccessToken(a, now).err,
                 !.rerr = validateRefreshToken(r, now).err, !.posted = TRUE,
                 !.spc = "decode", !.tok = jwt,
                 !.stored0 = Stored(jwt), !.late = (jwt \in Consumed),
                 !.gone0 = (jwt \in revoked),
                 !.fresh0 = (decodeToken(jwt, ServerValidator, now) = Nil)]

\* Client.VerifyAuthorization on a request with cookies a, r
BeginVerify(s, a, r) ==
    /\ slot[s].mode = "free"
    /\ LET pre == VerifyAuthorizationPre(a, r, now)
       IN  slot' = [slot EXCEPT ![s] =
                       IF pre.go THEN Posted("verify", a, r, 0, r[1])
                       ELSE Returned("verify", a, r, 0, pre.out)]
    /\ UNCHANGED <<watcher, directory, now, ticks, identity, refresh, nextId, minted, issued, handed, log, revoked>>

\* Client.VerifyAuthorizationGetCSRF
BeginGetCSRF(s, a, r) ==
    /\ slot[s].mode = "free"
    /\ LET pre == VerifyAuthorizationPre(a, r, now)
       IN  slot' = [slot EXCEPT ![s] =
                       IF pre.go THEN Posted("getcsrf", a, r, 0, r[1])
                       ELSE Returned("getcsrf", a, r, 0, GetCSRFTail(pre.out, r, now))]
    /\ UNCHANGED <<watcher, directory, now, ticks, identity, refresh, nextId, minted, issued, handed, log, revoked>>

\* Client.VerifyAuthorizationCheckCSRF
BeginCheckCSRF(s, a, r, reqCSRFSecret) ==
    /\ slot[s].mode = "free"
    /\ LET pre == VerifyAuthorizationCheckCSRFPre(a, r, reqCSRFSecret, now)
       IN  slot' = [slot EXCEPT ![s] =
                       IF pre.go THEN Posted("checkcsrf", a, r, reqCSRFSecret, r[1])
                       ELSE Returned("checkcsrf", a, r, reqCSRFSecret, pre.out)]
    /\ UNCHANGED <<watcher, directory, now, ticks, identity, refresh, nextId, minted, issued, handed, log, revoked>>

\* Client.HandleAuthorizationCode: code is <<>> when the query has no
\* auth_code
BeginAuthCode(s, code) ==
    /\ slot[s].mode = "free"
    /\ slot' = [slot EXCEPT ![s] =
                   IF code = <<>>
                      THEN [Returned("authcode", <<>>, code, 0, Outcome(<<>>, 0, Nil))
                              EXCEPT !.resp = HandleAuthorizationCode(code, [ok |-> FALSE, a |-> <<>>, r |-> <<>>])]
                   ELSE Posted("authcode", <<>>, code, 0, code[1])]
    /\ UNCHANGED <<watcher, directory, now, ticks, identity, refresh, nextId, minted, issued, handed, log, revoked>>

\* any HTTP client POSTs {refreshToken: jwt} to /api/refresh
BeginPost(s, jwt) ==
    /\ slot[s].mode = "free"
    /\ slot' = [slot EXCEPT ![s] = Posted("post", <<>>, <<jwt>>, 0, jwt)]
    /\ UNCHANGED <<watcher, directory, now, ticks, identity, refresh, nextId, minted, issued, handed, log, revoked>>

\* what http.Post hands back: the server's answer, nothing (status 0, the
\* request or the response was lost), or a 200 whose tokens were not made
\* by this server
Delivered(sl, net) ==
    IF net = "ok" THEN [status |-> sl.status, a |-> sl.newA, r |-> sl.newR]
    ELSE IF net = "garbled" THEN [status |-> StatusOK, a |-> <<Forged>>, r |-> <<Forged>>]
    ELSE [status |-> 0, a |-> <<>>, r |-> <<>>]

\* the POST comes back: RefreshTokens decodes the pair, the entry point
\* writes the cookies (SetTokenCookies) and returns.  A request that is
\* lost before the server reads it is never served.
Finish(s, net) ==
    /\ slot[s].cpc = "wait"
    /\ slot[s].mode # "post"
    /\ slot[s].spc \in {"decode", "done"}
    /\ slot[s].spc = "decode" => net = "lost"
    /\ LET sl == slot[s]
           d == Delivered(sl, net)
           rt == ClientRefreshTokens(d.status, d.a, d.r, now)
       IN  slot' = [slot EXCEPT ![s].cpc = "ret", ![s].got = d,
                                ![s].spc = IF sl.spc = "decode" THEN "none" ELSE sl.spc,
                                ![s].out = AfterRefresh(sl.mode, rt, sl.r, now),
                                ![s].resp = IF sl.mode = "authcode" THEN HandleAuthorizationCode(sl.r, rt)
                                            ELSE sl.resp,
                                ![s].setA = IF rt.ok THEN <<SetTokenCookies(rt.a[1], rt.r[1], now).a.value>> ELSE <<>>,
                                ![s].setR = IF rt.ok THEN <<SetTokenCookies(rt.a[1], rt.r[1], now).r.value>> ELSE <<>>,
                                ![s].maxA = IF rt.ok THEN SetTokenCookies(rt.a[1], rt.r[1], now).a.maxAge ELSE 0,
                                ![s].maxR = IF rt.ok THEN SetTokenCookies(rt.a[1], rt.r[1], now).r.maxAge ELSE 0]
    /\ UNCHANGED <<watcher, directory, now, ticks, identity, refresh, nextId, minted, issued, handed, log, revoked>>

\* the call is over; its slot serves the next one
Release(s) ==
    /\ slot[s].cpc = "ret"
    /\ slot' = [slot EXCEPT ![s] = Free]
    /\ UNCHANGED <<watcher, directory, now, ticks, identity, refresh, nextId, minted, issued, handed, log, revoked>>

\* A call that has returned is looked at before anything else happens: it
\* has no further effect on the program, so this loses no behaviour.
Quiet == \A s \in Slots : slot[s].cpc # "ret"

\* calls take the lowest free slot
FirstFree(s) == Quiet /\ slot[s].mode = "free" /\ \A u \in Slots : u < s => slot[u].mode # "free"

\* a caller of CheckCSRF provides nothing, or the secret in its refresh cookie
Secrets(r) == {0} \cup {k.secret : k \in {r[i] : i \in 1..Len(r)}}
\* ------------------------------------------------- services directory reload
\* a write, create or remove in the services directory: afterwards the files
\* are fs, and the watcher asks for a reload (events within the debounce
\* window are one reload)
FileChange(fs) ==
    /\ directory' = [directory EXCEPT !.files = fs, !.reload = TRUE, !.bad = @ \cap fs]
    /\ UNCHANGED <<watcher, now, ticks, identity, refresh, nextId, minted, issued, handed, log, revoked, slot>>

\* a file is written whose content is not a service definition (not JSON, or
\* a redirect that url.Parse rejects)
WriteInvalid(name) ==
    /\ directory' = [directory EXCEPT !.files = @ \cup {name}, !.bad = @ \cup {name},
                                      !.reload = TRUE]
    /\ UNCHANGED <<watcher, now, ticks, identity, refresh, nextId, minted, issued, handed, log, revoked, slot>>

\* DynamicServicesDirectory.Load up to the loop: os.ReadDir, clear(s.services)
Load ==
    /\ directory.pc = "idle" /\ directory.reload
    /\ directory' = [directory EXCEPT
                        !.reload = FALSE,
                        !.old = DOMAIN directory.services,
                        !.listed = directory.files,
                        !.services = << >>,
                        !.pending = ReadDir(directory.files),
                        !.pc = IF ReadDir(directory.files) = <<>> THEN "idle" ELSE "loop"]
    /\ UNCHANGED <<watcher, now, ticks, identity, refresh, nextId, minted, issued, handed, log, revoked, slot>>

\* one iteration of the loop of Load: loadService of the next file; Load
\* returns if loadService fails (the file cannot be read any more or does
\* not parse), else s.services[name] = service
LoadFile ==
    /\ directory.pc = "loop"
    /\ LET name == Head(directory.pending)
           rest == Tail(directory.pending)
       IN  IF name \notin directory.files \/ name \in directory.bad
              THEN directory' = [directory EXCEPT !.pc = "idle", !.pending = <<>>]
              ELSE directory' = [directory EXCEPT
                                    !.services = [n \in DOMAIN directory.services \cup {name} |->
                                                     Catalog[n]],
                                    !.pending = rest,
                                    !.pc = IF rest = <<>> THEN "idle" ELSE "loop"]
    /\ UNCHANGED <<watcher, now, ticks, identity, refresh, nextId, minted, issued, handed, log, revoked, slot>>

\* DynamicServicesDirectory.GetService: the map is read without a lock
GetService(s, name) ==
    /\ slot[s].mode = "free"
    /\ slot' = [slot EXCEPT ![s] =
                   [Free EXCEPT !.mode = "getservice", !.cpc = "ret",
                                !.sent = [NoRequest EXCEPT !.service = name],
                                !.loc = IF name \in DOMAIN directory.services
                                           THEN directory.services[name].redirect ELSE NoURL,
                                !.serr = IF name \in DOMAIN directory.services
                                            THEN Nil ELSE Wrapped("ServiceNotFound")]]
    /\ UNCHANGED <<watcher, directory, now, ticks, identity, refresh, nextId, minted, issued, handed, log, revoked>>

\* GetService while Load writes the map: the Go runtime may stop the
\* process ("concurrent map read and map write"); the lookup has no answer
GetServiceRace(s, name) ==
    /\ slot[s].mode = "free"
    /\ directory.pc = "loop"
    /\ slot' = [slot EXCEPT ![s] =
                   [Free EXCEPT !.mode = "getservice", !.cpc = "ret", !.fault = TRUE,
                                !.sent = [NoRequest EXCEPT !.service = name],
                                !.serr = Wrapped("Internal")]]
    /\ UNCHANGED <<watcher, directory, now, ticks, identity, refresh, nextId, minted, issued, handed, log, revoked>>

CatalogNext ==
    \/ \E fs \in SUBSET DOMAIN Catalog : FileChange(fs)
    \/ \E name \in DOMAIN Catalog : WriteInvalid(name)
    \/ Load
    \/ LoadFile
    \/ \E name \in ServiceNames : GetService(1, name)
    \/ \E name \in ServiceNames : GetServiceRace(1, name)
    \/ Release(1)

SpecCatalog == SigInit /\ [][CatalogNext]_vars

\* ------------------------------------------------------- directory watcher
\* fsnotify event kinds
EventKinds == {"write", "create", "remove", "chmod"}

\* the file system changes and fsnotify queues an event of the kind
FsEvent(kind) ==
    /\ watcher.events < MaxEvents
    /\ watcher' = [watcher EXCEPT !.queue = Append(@, kind), !.events = @ + 1,
                                  !.dirty = @ \/ kind # "chmod"]
    /\ directory' = [directory EXCEPT
                        !.files = IF kind = "remove" THEN @ \ {"other"}
                                  ELSE IF kind = "create" THEN @ \cup {"other"}
                                  ELSE @]
    /\ UNCHANGED <<now, ticks, identity, refresh, nextId, minted, issued, handed, log, revoked, slot>>

\* variant: the send on reload does not block; an event that arrives while
\* scheduleReload is not in its select is dropped
handleWatcher_NonBlocking ==
    /\ watcher.hw = "select"
    /\ watcher.queue # <<>>
    /\ watcher' = [watcher EXCEPT !.queue = Tail(@),
                                  !.hw = IF /\ Head(watcher.queue) \in {"write", "remove", "create"}
                                            /\ watcher.sched = "select"
                                            THEN "send" ELSE "select"]
    /\ UNCHANGED <<directory, now, ticks, identity, refresh, nextId, minted, issued, handed, log, revoked, slot>>

\* handleWatcher: receive from watcher.Events; an event that has Write,
\* Remove or Create is sent on reload
handleWatcher ==
    /\ watcher.hw = "select"
    /\ watcher.queue # <<>>
    /\ watcher' = [watcher EXCEPT !.queue = Tail(@),
                                  !.hw = IF Head(watcher.queue) \in {"write", "remove", "create"}
                                            THEN "send" ELSE "select"]
    /\ UNCHANGED <<directory, now, ticks, identity, refresh, nextId, minted, issued, handed, log, revoked, slot>>

\* scheduleReload, case <-reload: timer.Reset(duration) if the timer is set,
\* else time.NewTimer(duration).  Reset of a timer that has fired leaves the
\* value in timer.C or discards it, depending on the Go release
scheduleReload ==
    /\ watcher.sched = "select"
    /\ watcher.hw = "send"
    /\ \E keep \in BOOLEAN :
          watcher' = [watcher EXCEPT !.hw = "select", !.timer = "set", !.armed = TRUE,
                                     !.left = Debounce,
                                     !.c = watcher.timer = "set" /\ watcher.c /\ keep,
                                     !.since = 0, !.fires = 0]
    /\ UNCHANGED <<directory, now, ticks, identity, refresh, nextId, minted, issued, handed, log, revoked, slot>>

\* the runtime's timer expires: a value is put in timer.C
TimerExpire ==
    /\ watcher.armed /\ watcher.left = 0
    /\ watcher' = [watcher EXCEPT !.armed = FALSE, !.c = TRUE]
    /\ UNCHANGED <<directory, now, ticks, identity, refresh, nextId, minted, issued, handed, log, revoked, slot>>

\* scheduleReload, case <-c: c = nil, timer = nil, callback() begins
scheduleCallback ==
    /\ watcher.sched = "select"
    /\ watcher.timer = "set" /\ watcher.c
    /\ watcher' = [watcher EXCEPT !.sched = "callback", !.timer = "nil", !.armed = FALSE,
                                  !.left = 0, !.c = FALSE,
                                  !.quiet = watcher.since, !.fires = @ + 1, !.dirty = FALSE]
    /\ directory' = [directory EXCEPT !.reload = TRUE]
    /\ UNCHANGED <<now, ticks, identity, refresh, nextId, minted, issued, handed, log, revoked, slot>>

\* callback() returns: Load is over
CallbackReturn ==
    /\ watcher.sched = "callback"
    /\ directory.pc = "idle" /\ ~directory.reload
    /\ watcher' = [watcher EXCEPT !.sched = "select"]
    /\ UNCHANGED <<directory, now, ticks, identity, refresh, nextId, minted, issued, handed, log, revoked, slot>>

\* time passes by one step; a timer whose time is up expires first
Advance ==
    /\ ~(watcher.armed /\ watcher.left = 0)
    /\ watcher' = [watcher EXCEPT !.left = IF watcher.armed THEN @ - 1 ELSE @,
                                  !.since = IF @ < Debounce THEN @ + 1 ELSE @]
    /\ UNCHANGED <<directory, now, ticks, identity, refresh, nextId, minted, issued, handed, log, revoked, slot>>

WatchNext ==
    \/ \E kind \in EventKinds : FsEvent(kind)
    \/ handleWatcher
    \/ scheduleReload
    \/ TimerExpire
    \/ scheduleCallback
    \/ Load
    \/ LoadFile
    \/ CallbackReturn
    \/ Advance

SpecWatch == SigInit /\ [][WatchNext]_vars

\* the goroutines and the runtime's timers keep running and time passes
SpecWatchLive ==
    /\ SpecWatch
    /\ WF_vars(handleWatcher) /\ WF_vars(scheduleReload) /\ WF_vars(TimerExpire)
    /\ WF_vars(scheduleCallback) /\ WF_vars(Load) /\ WF_vars(LoadFile)
    /\ WF_vars(CallbackReturn) /\ WF_vars(Advance)



\* the auth server under concurrent callers of its HTTP API
Next ==
    \/ Quiet /\ Tick
    \/ \E s \in Slots, h \in Handles : FirstFree(s) /\ Register(s, h, "pw")
    \/ \E s \in Slots, h \in Handles, p \in Passwords, svc \in ServiceNames :
          FirstFree(s) /\ APILogin(s, "json", TRUE, h, p, svc)
    \/ \E s \in Slots, k \in Known : FirstFree(s) /\ Logout(s, k, FALSE)
    \/ \E s \in Slots, k \in Known : FirstFree(s) /\ BeginPost(s, k)
    \/ \E s \in Slots : Quiet /\ SrvDecode(s)
    \/ \E s \in Slots : Quiet /\ SrvDelete(s)
    \/ \E s \in Slots : Quiet /\ SrvIssue(s)
    \/ \E s \in Slots : Quiet /\ SrvInsert(s)
    \/ \E s \in Slots : Release(s)

\* one call at a time: the relying party's entry points and the callers of
\* the auth server's HTTP API
ClientNext ==
    \/ Quiet /\ Tick
    \/ \E h \in Handles : FirstFree(1) /\ Register(1, h, "pw")
    \/ \E h \in Handles, p \in Passwords, svc \in ServiceNames : FirstFree(1) /\ APILogin(1, "json", TRUE, h, p, svc)
    \/ \E k \in Known : FirstFree(1) /\ Logout(1, k, FALSE)
    \/ \E a \in Cookies, r \in Cookies : FirstFree(1) /\ BeginVerify(1, a, r)
    \/ \E a \in Cookies, r \in Cookies : FirstFree(1) /\ BeginGetCSRF(1, a, r)
    \/ \E a \in Cookies, r \in Cookies : \E c \in Secrets(r) : FirstFree(1) /\ BeginCheckCSRF(1, a, r, c)
    \/ \E code \in Cookies : FirstFree(1) /\ BeginAuthCode(1, code)
    \/ Quiet /\ SrvDecode(1)
    \/ Quiet /\ SrvDelete(1)
    \/ Quiet /\ SrvIssue(1)
    \/ Quiet /\ SrvInsert(1)
    \/ \E net \in {"ok", "lost", "garbled"} : Quiet /\ Finish(1, net)
    \/ Release(1)

\* the auth server's HTTP API, one request at a time, with every content
\* type and body of POST /login, both handlers of POST /logout, and a store
\* whose DELETE may fail
ApiNext ==
    \/ Quiet /\ Tick
    \/ \E h \in Handles \cup {""}, p \in Passwords : FirstFree(1) /\ Register(1, h, p)
    \/ \E c \in ContentTypes, h \in Handles \cup Strangers \cup {""}, p \in Passwords \cup {""},
          svc \in ServiceNames \cup {""} : FirstFree(1) /\ APILogin(1, c, TRUE, h, p, svc)
    \/ \E c \in ContentTypes : FirstFree(1) /\ APILogin(1, c, FALSE, "", "", "")
    \/ \E k \in Known, f \in BOOLEAN : FirstFree(1) /\ Logout(1, k, f)
    \/ \E k \in Known, f \in BOOLEAN : FirstFree(1) /\ PkgLogout(1, k, f)
    \/ \E k \in Known : FirstFree(1) /\ BeginPost(1, k)
    \/ Quiet /\ SrvDecode(1)
    \/ Quiet /\ SrvDelete(1)
    \/ Quiet /\ SrvIssue(1)
    \/ Quiet /\ SrvInsert(1)
    \/ Release(1)

\* the auth server's HTTP API, one request at a time, over a store whose
\* statements may fail
FaultNext ==
    \/ Quiet /\ Tick
    \/ \E h \in Handles \cup {""} : FirstFree(1) /\ Register(1, h, "pw")
    \/ \E h \in Handles : FirstFree(1) /\ RegisterFault(1, h, "pw")
    \/ \E h \in Handles, p \in Passwords, svc \in ServiceNames :
          FirstFree(1) /\ APILogin(1, "json", TRUE, h, p, svc)
    \/ \E h \in Handles, p \in Passwords, svc \in ServiceNames, stmt \in {"select", "insert"} :
          FirstFree(1) /\ LoginFault(1, h, p, svc, stmt)
    \/ \E k \in Known, f \in BOOLEAN : FirstFree(1) /\ Logout(1, k, f)
    \/ \E k \in Known, f \in {"none", "delete", "insert"} : FirstFree(1) /\ APIRefresh(1, k, f)
    \/ \E k \in Known : FirstFree(1) /\ BeginPost(1, k)
    \/ Quiet /\ SrvDecode(1)
    \/ Quiet /\ SrvDelete(1)
    \/ Quiet /\ SrvDeleteFault(1)
    \/ Quiet /\ SrvIssue(1)
    \/ Quiet /\ SrvInsert(1)
    \/ Quiet /\ SrvInsertFault(1)
    \/ Release(1)

Spec == Init /\ [][Next]_vars

SpecClient == Init /\ [][ClientNext]_vars

SpecApi == Init /\ [][ApiNext]_vars

SpecFault == Init /\ [][FaultNext]_vars

TypeOK ==
    /\ now \in Nat
    /\ minted \in 0..MaxMint
    /\ \A s \in Slots : slot[s].mode \in {"free", "register", "login", "logout", "pkglogout", "apirefresh", "decode", "issued", "signed", "unsigned", "getservice", "post", "verify", "getcsrf", "checkcsrf", "authcode"}


\* ------------------------------------------------- refresh-token rotation
\* a request that Service.RefreshTokens has answered
Served(sl) == sl.mode \in {"post", "verify", "getcsrf", "checkcsrf", "authcode"} /\ sl.spc = "done"

\* the answer is the 400 of a failed refresh: nothing minted, nothing inserted
Refused(sl) ==
    /\ sl.status = StatusBadRequest
    /\ sl.newA = <<>> /\ sl.newR = <<>>
    /\ sl.rows = 0

IsTokenNotFound(sl) == ErrorsIs(sl.serr, Sentinel("TokenNotFound"))

IsTokenInvalid(sl) == ErrorsIs(sl.serr, Sentinel("TokenInvalid"))

\* C1 as stated: once a refresh of T has succeeded, every refresh request
\* sent later with the same T fails with TokenNotFound (HTTP 400).
C1_AsStated ==
    \A s \in Slots :
        (Served(slot[s]) /\ slot[s].late) => (IsTokenNotFound(slot[s]) /\ Refused(slot[s]))

\* C1: once a refresh of T has succeeded, every refresh request sent later
\* with the same T is refused with HTTP 400 and mints and stores nothing:
\* with TokenNotFound when T is still unexpired as the request is decoded,
\* with TokenInvalid when T has expired by then.
C1_SingleUse ==
    \A s \in Slots :
        (Served(slot[s]) /\ slot[s].late) =>
            /\ Refused(slot[s])
            /\ ~slot[s].deleted
            /\ slot[s].derr = Nil => IsTokenNotFound(slot[s])
            /\ slot[s].derr # Nil =>
                  (slot[s].derr = ValidateError("Expired") /\ IsTokenInvalid(slot[s]))

\* a replay of a consumed, still unexpired token has been refused
C1_Witness ==
    \E s \in Slots :
        /\ Served(slot[s]) /\ slot[s].late
        /\ slot[s].derr = Nil
        /\ IsTokenNotFound(slot[s])

\* another request with the same token has taken the row and is still
\* minting or storing its replacement
WinnerInFlight(s) ==
    \E u \in Slots \ {s} :
        /\ slot[u].tok = slot[s].tok
        /\ slot[u].deleted
        /\ slot[u].spc \in {"issue", "insert"}

\* the token was stored and unexpired when the request was sent
SentGood(sl) == sl.stored0 /\ sl.fresh0

\* another request sent with the same stored, unexpired token is still
\* being served
Overlaps(s) ==
    \E u \in Slots \ {s} :
        /\ slot[u].tok = slot[s].tok
        /\ SentGood(slot[u])
        /\ slot[u].spc \in {"decode", "delete", "issue", "insert"}

\* C2 as stated: of the concurrent refresh requests presenting the same
\* stored (and, when they are sent, unexpired) token, the ones that do not
\* succeed fail with TokenNotFound and insert nothing.
C2_AsStated ==
    \A s \in Slots :
        (Served(slot[s]) /\ SentGood(slot[s]) /\ Overlaps(s) /\ slot[s].status # StatusOK) =>
            (IsTokenNotFound(slot[s]) /\ Refused(slot[s]))

\* C2: of the refresh requests sent while T is stored, at most one succeeds.
\* A request that decodes T before its expiry is answered with TokenNotFound
\* only if another request has taken T's row (and has succeeded or is
\* completing) or T was revoked by a logout; a request that decodes T after
\* its expiry is answered with TokenInvalid.  Every request that does not
\* succeed gets HTTP 400 and mints and inserts nothing.
C2_ExactlyOne ==
    /\ \A t \in Consumed : CopiesIn(t, log) = 1
    /\ \A s \in Slots :
          (Served(slot[s]) /\ slot[s].stored0) =>
              \/ /\ slot[s].status = StatusOK
                 /\ slot[s].deleted
                 /\ slot[s].tok \in Consumed
              \/ /\ Refused(slot[s])
                 /\ ~slot[s].deleted
                 /\ slot[s].derr = Nil
                 /\ IsTokenNotFound(slot[s])
                 /\ slot[s].tok \in Consumed \cup revoked \/ WinnerInFlight(s)
              \/ /\ Refused(slot[s])
                 /\ ~slot[s].deleted
                 /\ slot[s].derr = ValidateError("Expired")
                 /\ IsTokenInvalid(slot[s])

\* two requests with the same stored token overlapped; one has succeeded
\* and the other is refused with TokenNotFound
C2_Witness ==
    \E s \in Slots :
        /\ Served(slot[s]) /\ slot[s].stored0 /\ ~slot[s].late
        /\ slot[s].derr = Nil
        /\ IsTokenNotFound(slot[s]) /\ Refused(slot[s])
        /\ slot[s].tok \in Consumed
        /\ slot[s].tok \notin revoked

\* C3: a refresh request whose token decodes (signature and claims valid)
\* but has no row in the refresh table is answered TokenNotFound, HTTP 400;
\* no token is minted and no row is inserted.
C3_NotInStore ==
    \A s \in Slots :
        (Served(slot[s]) /\ slot[s].derr = Nil /\ ~slot[s].hadRow) =>
            /\ IsTokenNotFound(slot[s])
            /\ Refused(slot[s])
            /\ ~slot[s].deleted

\* a decodable token that was never stored (an access token sent as the
\* refresh token) has been refused
C3_Witness ==
    \E s \in Slots :
        /\ Served(slot[s]) /\ slot[s].derr = Nil /\ ~slot[s].hadRow
        /\ slot[s].tok \notin handed
        /\ IsTokenNotFound(slot[s])

\* the one request that presents a handed-out token: no other request has
\* succeeded with it or holds its row, and no logout revoked it
Sole(s) ==
    /\ slot[s].tok \in Consumed => slot[s].deleted
    /\ ~WinnerInFlight(s)
    /\ slot[s].tok \notin revoked

\* C4: a refresh request presenting a token the server handed out (by a
\* login or by an earlier refresh), decoded before the token expires and
\* being the only use of it, succeeds with HTTP 200 and returns a pair whose
\* refresh token is stored, so the chain can go on.
C4_RotationChain ==
    \A s \in Slots :
        (Served(slot[s]) /\ slot[s].tok \in handed /\ slot[s].derr = Nil /\ Sole(s)) =>
            /\ slot[s].status = StatusOK
            /\ slot[s].serr = Nil
            /\ slot[s].newA # <<>> /\ slot[s].newR # <<>>
            /\ slot[s].newR[1] \in handed
            /\ Stored(slot[s].newR[1])
            /\ slot[s].rows = 1

\* the second link of a chain: a token that came from a refresh has itself
\* been refreshed
C4_Witness ==
    \E s \in Slots :
        /\ Served(slot[s]) /\ slot[s].status = StatusOK
        /\ slot[s].tok \in handed \ Logins
        /\ Stored(slot[s].newR[1])


\* ------------------------------------------------ relying-party verifier
\* a call of entry point mode that has returned
Ret(sl, mode) == sl.mode = mode /\ sl.cpc = "ret"

\* the call wrote no cookie
NoCookies(sl) == sl.setA = <<>> /\ sl.setR = <<>>

\* the call sent nothing to the auth server and the store did not serve it
NoRefresh(sl) == ~sl.posted /\ sl.spc = "none" /\ ~sl.deleted

\* the request carries a readable refresh cookie whose secret is not the
\* provided one
Mismatch(sl) == sl.r # <<>> /\ sl.r[1].wf /\ sl.r[1].secret # sl.csrfIn

\* C5 as stated: CheckCSRF with a provided secret that differs from the
\* secret in the request's refresh cookie (a refresh token this auth server
\* handed out) returns (nil, "", CSRFInvalid).
C5_AsStated ==
    \A s \in Slots :
        (slot[s].mode = "checkcsrf" /\ Mismatch(slot[s]) /\ slot[s].r[1] \in handed) =>
            (slot[s].cpc = "ret" /\ slot[s].out = Outcome(<<>>, 0, ErrCSRFInvalid))

\* C5: CheckCSRF with a provided secret that differs from the secret in the
\* request's refresh cookie returns (nil, "", CSRFInvalid) whatever the
\* access cookie is, provided the refresh cookie decodes with the client
\* validator; when it does not decode the call returns (nil, "",
\* TokenInvalid), again whatever the access cookie is.
C5_CSRFMismatch ==
    \A s \in Slots :
        (slot[s].mode = "checkcsrf" /\ Mismatch(slot[s])) =>
            /\ slot[s].cpc = "ret"
            /\ slot[s].rerr = Nil => slot[s].out = Outcome(<<>>, 0, ErrCSRFInvalid)
            /\ slot[s].rerr # Nil => slot[s].out = Outcome(<<>>, 0, ErrTokenInvalid)

\* a mismatching secret came with a valid access cookie and was refused
C5_Witness ==
    \E s \in Slots :
        /\ Ret(slot[s], "checkcsrf") /\ Mismatch(slot[s])
        /\ slot[s].rerr = Nil /\ slot[s].aerr = Nil
        /\ slot[s].out.err = ErrCSRFInvalid

\* C6: in CheckCSRF the provided secret is compared with the request's
\* refresh token before any refresh: the step that takes a call with a
\* mismatching secret returns at once, sends nothing to the auth server,
\* leaves the refresh table as it was and writes no cookie; a call sends a
\* refresh request only if the secrets matched.
C6_CheckBeforeRefresh ==
    [][\A s \in Slots :
          (slot[s].mode = "free" /\ slot'[s].mode = "checkcsrf") =>
              /\ Mismatch(slot'[s]) =>
                    /\ slot'[s].cpc = "ret"
                    /\ NoRefresh(slot'[s])
                    /\ NoCookies(slot'[s])
                    /\ refresh' = refresh /\ log' = log
              /\ slot'[s].posted =>
                    /\ slot'[s].rerr = Nil
                    /\ slot'[s].r[1].secret = slot'[s].csrfIn
                    /\ slot'[s].tok = slot'[s].r[1]]_vars

\* a mismatching secret came with no access cookie and a stored refresh
\* token: nothing was sent and the token is still stored
C6_Witness ==
    \E s \in Slots :
        /\ Ret(slot[s], "checkcsrf") /\ Mismatch(slot[s])
        /\ slot[s].rerr = Nil /\ slot[s].aerr = ErrTokenAbsent
        /\ Stored(slot[s].r[1])
        /\ NoRefresh(slot[s])

\* C7: VerifyAuthorization sends a refresh request only when the access
\* cookie is absent or decodes as Expired; a valid access token is returned
\* with no refresh and no cookie; any other decode failure gives
\* TokenInvalid with no refresh and no cookie.
C7_RefreshOnlyWhenRefreshable ==
    \A s \in Slots :
        slot[s].mode = "verify" =>
            /\ slot[s].posted =>
                  (slot[s].aerr = ErrTokenAbsent \/ slot[s].aerr = ValidateError("Expired"))
            /\ slot[s].aerr = Nil =>
                  /\ slot[s].cpc = "ret"
                  /\ slot[s].out = Outcome(slot[s].a, 0, Nil)
                  /\ NoRefresh(slot[s]) /\ NoCookies(slot[s])
            /\ (slot[s].aerr \notin {Nil, ErrTokenAbsent, ValidateError("Expired")}) =>
                  /\ slot[s].cpc = "ret"
                  /\ slot[s].out = Outcome(<<>>, 0, ErrTokenInvalid)
                  /\ NoRefresh(slot[s]) /\ NoCookies(slot[s])

\* a call with no access cookie refreshed and wrote the new cookies
C7_Witness ==
    \E s \in Slots :
        /\ Ret(slot[s], "verify") /\ slot[s].posted
        /\ slot[s].aerr = ErrTokenAbsent
        /\ slot[s].out.err = Nil /\ slot[s].setR # <<>>

\* the call refreshed: the auth server's new pair was written to the cookies
Refreshed(sl) == sl.posted /\ sl.out.err = Nil /\ sl.setR # <<>>

\* C8: GetCSRF returns the secret of the refresh token that is current
\* after the call: with no refresh, the secret of the request's refresh
\* cookie; after a refresh, the secret of the refresh token just written to
\* the refreshToken cookie, so that CheckCSRF on the new cookies with that
\* secret passes its CSRF comparison.
C8_GetCSRFCurrent ==
    \A s \in Slots :
        (Ret(slot[s], "getcsrf") /\ slot[s].out.err = Nil) =>
            IF Refreshed(slot[s])
                THEN /\ slot[s].out.csrf = slot[s].setR[1].secret
                     /\ VerifyAuthorizationCheckCSRFPre(slot[s].setA, slot[s].setR,
                                                         slot[s].out.csrf, now).out.err = Nil
                ELSE slot[s].out.csrf = slot[s].r[1].secret

\* C9: when CheckCSRF succeeds after refreshing, the secret it returns is
\* the secret of the refresh token the auth server just issued and that the
\* call wrote to the refreshToken cookie, not the secret of the consumed
\* token.
C9_CheckCSRFNewSecret ==
    \A s \in Slots :
        (Ret(slot[s], "checkcsrf") /\ slot[s].posted /\ slot[s].out.err = Nil) =>
            /\ slot[s].setR # <<>> /\ slot[s].setA # <<>>
            /\ slot[s].setR = slot[s].got.r
            /\ slot[s].out.csrf = slot[s].setR[1].secret
            /\ slot[s].out.tok = slot[s].setA
            /\ slot[s].got.r = slot[s].newR => slot[s].out.csrf # slot[s].r[1].secret

\* CheckCSRF matched the secret, had no access cookie, refreshed at the auth
\* server and returned the new token's secret
C9_Witness ==
    \E s \in Slots :
        /\ Ret(slot[s], "checkcsrf") /\ Refreshed(slot[s])
        /\ slot[s].aerr = ErrTokenAbsent
        /\ slot[s].setR = slot[s].newR
        /\ slot[s].out.csrf = slot[s].newR[1].secret
        /\ slot[s].out.csrf # slot[s].csrfIn

\* what came back from the POST is no usable pair: no response, a status
\* other than 200, or a token that the client validator rejects
RefreshFailed(sl, t) ==
    \/ sl.got.status # StatusOK
    \/ sl.got.a = <<>> \/ sl.got.r = <<>>
    \/ decodeToken(sl.got.a[1], ClientValidator, t) # Nil
    \/ decodeToken(sl.got.r[1], ClientValidator, t) # Nil

\* C10: if the refresh call to the auth server fails (network error,
\* non-200 status, or tokens that do not decode with the client validator)
\* VerifyAuthorization returns (nil, NetworkTokenRefresh) and writes no
\* cookie.
C10_RefreshFailure ==
    \A s \in Slots :
        (Ret(slot[s], "verify") /\ slot[s].posted /\ RefreshFailed(slot[s], now)) =>
            /\ slot[s].out = Outcome(<<>>, 0, ErrNetworkTokenRefresh)
            /\ NoCookies(slot[s])

\* the auth server answered 200 but the tokens that arrived do not verify
C10_Witness ==
    \E s \in Slots :
        /\ Ret(slot[s], "verify") /\ slot[s].posted
        /\ slot[s].got.status = StatusOK
        /\ RefreshFailed(slot[s], now)
        /\ slot[s].out.err = ErrNetworkTokenRefresh

\* the access cookie is absent or decodes as Expired
AccessRefreshable(sl) == sl.aerr = ErrTokenAbsent \/ sl.aerr = ValidateError("Expired")

\* C11: in VerifyAuthorization, once the access token is absent or expired,
\* an absent refreshToken cookie yields TokenAbsent, a refreshToken cookie
\* that fails to decode yields TokenInvalid, and in both cases nothing is
\* sent to the auth server.
C11_RefreshCookieErrors ==
    \A s \in Slots :
        (slot[s].mode = "verify" /\ AccessRefreshable(slot[s]) /\ slot[s].rerr # Nil) =>
            /\ slot[s].cpc = "ret"
            /\ NoRefresh(slot[s])
            /\ slot[s].out.tok = <<>>
            /\ slot[s].out.err = IF slot[s].r = <<>> THEN ErrTokenAbsent ELSE ErrTokenInvalid

\* C12: when VerifyAuthorization refreshes successfully it writes the
\* accessToken and the refreshToken cookie with exactly the pair the auth
\* server returned, each with MaxAge = seconds from now to that token's
\* expiration (AccessLifetime for the access token when no time passed
\* since it was issued), and returns that access token with a nil error.
C12_CookiesWritten ==
    \A s \in Slots :
        (Ret(slot[s], "verify") /\ slot[s].posted /\ slot[s].out.err = Nil) =>
            /\ slot[s].status = StatusOK
            /\ slot[s].setA = slot[s].newA /\ slot[s].setA # <<>>
            /\ slot[s].setR = slot[s].newR /\ slot[s].setR # <<>>
            /\ slot[s].maxA = slot[s].setA[1].exp - now
            /\ slot[s].maxR = slot[s].setR[1].exp - now
            /\ slot[s].setA[1].iat = now => slot[s].maxA = AccessLifetime
            /\ slot[s].out = Outcome(slot[s].newA, 0, Nil)

\* a refresh whose answer arrived after the clock had moved: the cookies
\* live for what is left of the tokens' lifetimes
C12_Witness ==
    \E s \in Slots :
        /\ Ret(slot[s], "verify") /\ slot[s].posted /\ slot[s].out.err = Nil
        /\ slot[s].setA = slot[s].newA
        /\ slot[s].maxA = slot[s].setA[1].exp - now
        /\ slot[s].maxA < AccessLifetime /\ slot[s].maxA > 0

\* C13: both tokens returned by a successful refresh carry the subject and
\* the audience list of the consumed refresh token.
C13_SubjectAudienceCopied ==
    \A s \in Slots :
        (Served(slot[s]) /\ slot[s].status = StatusOK) =>
            /\ slot[s].newA[1].sub = slot[s].tok.sub
            /\ slot[s].newR[1].sub = slot[s].tok.sub
            /\ slot[s].newA[1].aud = slot[s].tok.aud
            /\ slot[s].newR[1].aud = slot[s].tok.aud
            /\ SplitAudience(slot[s].newA[1].aud) = SplitAudience(slot[s].tok.aud)
            /\ SplitAudience(slot[s].newR[1].aud) = SplitAudience(slot[s].tok.aud)

\* a token whose audience list has two elements has been refreshed
C13_Witness ==
    \E s \in Slots :
        /\ Served(slot[s]) /\ slot[s].status = StatusOK
        /\ Len(SplitAudience(slot[s].tok.aud)) = 2
        /\ slot[s].newR[1].aud = slot[s].tok.aud

\* the answer to a POST /login has been written
LoginAnswered(sl) == sl.mode = "login" /\ sl.cpc = "ret"

\* the request names a registered handle with its secret
Authentic(sent) ==
    \E i \in identity : i.handle = sent.handle /\ CompareHashAndPassword(i.secret, sent.secret)

\* a well-formed JSON login with valid credentials for a service of the catalog
ValidLogin(sent) ==
    /\ sent.wf
    /\ Authentic(sent)
    /\ sent.service \in DOMAIN Catalog

LoginResponse(sl) == [status |-> sl.status, location |-> sl.loc]

\* the response API.Login writes when Service.Login returns err
RefusalFor(err) == [status |-> httpStatusFromError(err), location |-> NoURL]

Registered(handle) == \E i \in identity : i.handle = handle

\* the request is parsed and handed to Service.Login
Processed(sent) ==
    /\ sent.wf
    /\ \/ sent.ctype = "json"
       \/ sent.ctype = "form" /\ sent.handle # "" /\ sent.secret # "" /\ sent.service # ""

\* C15: a login with an unknown handle and a login with a known handle and
\* a wrong secret get the same response, status 401 without Location and
\* without a token, also when both are made in the same state of the
\* server.
C15_NoEnumeration ==
    /\ \A s \in Slots :
          (LoginAnswered(slot[s]) /\ Processed(slot[s].sent) /\ ~Authentic(slot[s].sent)) =>
              /\ LoginResponse(slot[s]) = [status |-> StatusUnauthorized, location |-> NoURL]
              /\ slot[s].newR = <<>>
    /\ \A h1 \in Handles \cup Strangers \cup {""}, h2 \in Handles, p1 \in Passwords \cup {""},
          p2 \in Passwords \cup {""}, v1 \in ServiceNames \cup {""}, v2 \in ServiceNames \cup {""} :
          (/\ ~Registered(h1)
           /\ Registered(h2) /\ ~Authentic([handle |-> h2, secret |-> p2])) =>
              RefusalFor(LoginError(h1, p1, v1)) = RefusalFor(LoginError(h2, p2, v2))

\* alice is registered and a login as alice with a wrong secret has been
\* answered, while a login as bob would meet an unknown account
C15_Witness ==
    \E s \in Slots :
        /\ LoginAnswered(slot[s]) /\ slot[s].sent.ctype = "json" /\ slot[s].sent.wf
        /\ Registered(slot[s].sent.handle) /\ ~Authentic(slot[s].sent)
        /\ slot[s].serr = Sentinel("InvalidCredentials")
        /\ slot[s].status = StatusUnauthorized
        /\ \E h \in Strangers : LoginError(h, slot[s].sent.secret, slot[s].sent.service) = Wrapped("AccountNotFound")

\* the answer of API.Logout has been written
LogoutAnswered(sl) == sl.mode = "logout" /\ sl.cpc = "ret"

\* C16: a refresh token whose logout has succeeded has no row in the
\* store; a refresh request sent with it afterwards is answered 400 and
\* mints and stores nothing, and so is a second logout, which deletes
\* nothing.
C16_LogoutRevokes ==
    /\ \A t \in revoked : ~Stored(t)
    /\ \A s \in Slots :
          (Served(slot[s]) /\ slot[s].mode = "post" /\ slot[s].gone0) =>
              (Refused(slot[s]) /\ ~slot[s].deleted /\ ~slot[s].stored0)
    /\ \A s \in Slots :
          (LogoutAnswered(slot[s]) /\ slot[s].gone0) =>
              /\ slot[s].status = StatusBadRequest
              /\ slot[s].serr = Sentinel("TokenNotFound")
              /\ ~slot[s].deleted

\* a refresh of a logged-out, still unexpired token has been refused
C16_Witness ==
    \E s \in Slots :
        /\ Served(slot[s]) /\ slot[s].mode = "post" /\ slot[s].gone0
        /\ slot[s].derr = Nil
        /\ IsTokenNotFound(slot[s])
        /\ slot[s].status = StatusBadRequest

\* C17: POST /logout, by either handler, answers 200 exactly when a row
\* matching the presented string was deleted, 400 exactly when the DELETE
\* ran and matched no row, and 500 exactly when the store returned an
\* error.
C17_LogoutStatus ==
    \A s \in Slots :
        (slot[s].mode \in {"logout", "pkglogout"} /\ slot[s].cpc = "ret") =>
            /\ slot[s].status = StatusOK <=> slot[s].deleted
            /\ slot[s].status = StatusBadRequest <=> (~slot[s].fault /\ ~slot[s].deleted)
            /\ slot[s].status = StatusInternalServerError <=> slot[s].fault

\* C18: a form-encoded login with a registered handle, its secret and a
\* service of the catalog is answered like the JSON login with the same
\* fields: 303 with an auth_code issued to the submitted handle for the
\* submitted service.
C18_FormLogin ==
    \A s \in Slots :
        (LoginAnswered(slot[s]) /\ slot[s].sent.ctype = "form" /\ ValidLogin(slot[s].sent)) =>
            /\ slot[s].status = StatusSeeOther
            /\ slot[s].newR # <<>>
            /\ slot[s].newR[1].sub = slot[s].sent.handle
            /\ slot[s].newR[1].aud = Catalog[slot[s].sent.service].audience
            /\ <<"auth_code", slot[s].newR>> \in slot[s].loc.query

\* a field of the login request is missing or empty
Incomplete(sent) == sent.handle = "" \/ sent.secret = "" \/ sent.service = ""

\* C19: a form-encoded or JSON login in which handle, secret or service is
\* missing or empty is answered 400, and no token is issued or stored.
C19_MissingFields ==
    \A s \in Slots :
        (/\ LoginAnswered(slot[s]) /\ slot[s].sent.ctype \in {"form", "json"}
         /\ slot[s].sent.wf /\ Incomplete(slot[s].sent)) =>
            /\ slot[s].status = StatusBadRequest
            /\ slot[s].newR = <<>>
            /\ slot[s].loc = NoURL

\* slot s takes a request in this step and answers it as mode
Answers(s, mode) == slot[s].mode = "free" /\ slot'[s].mode = mode /\ slot'[s].cpc = "ret"

\* C20: no step changes or removes the identity row of a registered handle
\* or adds a second row for it; a register for a registered handle is
\* answered 409 HandleExists and leaves the table as it is; a JSON login
\* with the registered secret is answered 303.
C20_IdentityImmutable ==
    [][/\ \A i \in identity :
             /\ i \in identity'
             /\ \A j \in identity' : j.handle = i.handle => j = i
       /\ \A s \in Slots :
             (Answers(s, "register") /\ Registered(slot'[s].sent.handle)) =>
                 /\ slot'[s].status = StatusConflict
                 /\ slot'[s].serr = Sentinel("HandleExists")
                 /\ identity' = identity
       /\ \A s \in Slots :
             (/\ Answers(s, "login") /\ slot'[s].sent.ctype = "json"
              /\ ValidLogin(slot'[s].sent)) =>
                 slot'[s].status = StatusSeeOther]_vars

\* a register of a registered handle with another password has been
\* answered 409 and the first password is still the one that logs in
C20_Witness ==
    \E s \in Slots :
        /\ slot[s].mode = "register" /\ slot[s].cpc = "ret"
        /\ slot[s].status = StatusConflict
        /\ ~Authentic(slot[s].sent)
        /\ \E p \in Passwords : LoginError(slot[s].sent.handle, p, "test") = Nil

\* a request to login, refresh, logout or register has been answered
EndpointAnswered(sl) ==
    sl.mode \in {"register", "login", "logout", "post", "apirefresh"} /\ sl.spc = "done"

\* err is one of the listed service errors, bare or wrapped
IsAnyOf(err, kinds) == \E k \in kinds : ErrorsIs(err, Sentinel(k))

\* C21: on login, refresh, logout and register a failure is answered with
\* the status of its kind: 401 for InvalidCredentials and AccountNotFound,
\* 400 for ServiceNotFound, TokenInvalid, TokenNotFound and InvalidHandle,
\* 409 for HandleExists, 500 for Internal, which is what every failure of a
\* statement of the store is.
C21_ErrorTaxonomy ==
    \A s \in Slots :
        EndpointAnswered(slot[s]) =>
            /\ slot[s].fault => slot[s].status = StatusInternalServerError
            /\ IsAnyOf(slot[s].serr, {"InvalidCredentials", "AccountNotFound"}) =>
                  slot[s].status = StatusUnauthorized
            /\ IsAnyOf(slot[s].serr, {"ServiceNotFound", "TokenInvalid", "TokenNotFound", "InvalidHandle"}) =>
                  slot[s].status = StatusBadRequest
            /\ IsAnyOf(slot[s].serr, {"HandleExists"}) => slot[s].status = StatusConflict
            /\ IsAnyOf(slot[s].serr, {"Internal"}) => slot[s].status = StatusInternalServerError
            /\ (slot[s].mode = "apirefresh" /\ ~slot[s].fault /\ slot[s].status # StatusOK) =>
                  slot[s].status = StatusBadRequest

\* a string whose structure, header and signature are accepted under the
\* validator of role r: its claims are validated
ClaimsReached(tok, key) ==
    /\ tok.wf /\ tok.hdrwf /\ tok.claimswf
    /\ verifyHeader(tok)
    /\ tok.sigwf /\ tok.key = key

Decoded(sl) == sl.mode = "decode"

\* C22: claim validation reports the first failing check in the order iat,
\* exp, iss, aud: NotIssued if iat is in the future, else Expired if exp is
\* in the past, else InvalidIssuer if iss differs, else InvalidAudience if
\* the validator enforces audience and none matches, else no error.
C22_ValidationOrder ==
    \A s \in Slots :
        (Decoded(slot[s]) /\ ClaimsReached(slot[s].tok, ServerKey)) =>
            LET tok == slot[s].tok
                audOK == \E i \in 1..Len(tok.aud) : <<tok.aud[i]>> = slot[s].vaud
            IN  slot[s].derr =
                    IF tok.iat > now THEN ValidateError("NotIssued")
                    ELSE IF tok.exp < now THEN ValidateError("Expired")
                    ELSE IF tok.iss # IssuerDomain THEN ValidateError("InvalidIssuer")
                    ELSE IF slot[s].role = "client" /\ ~audOK THEN ValidateError("InvalidAudience")
                    ELSE Nil

\* a token that fails all four checks has been reported as NotIssued
C22_Witness ==
    \E s \in Slots :
        /\ Decoded(slot[s]) /\ ClaimsReached(slot[s].tok, ServerKey)
        /\ slot[s].role = "client"
        /\ slot[s].tok.iat > now /\ slot[s].tok.exp < now
        /\ slot[s].tok.iss # IssuerDomain
        /\ slot[s].tok.aud = <<"other-aud">>
        /\ slot[s].derr = ValidateError("NotIssued")

\* the header decodes but is not ES256 / JWT, or the signature segment does
\* not verify under the key the validators hold
BadlySigned(tok) ==
    /\ tok.wf /\ tok.hdrwf
    /\ \/ tok.alg # "ES256"
       \/ tok.typ # "JWT"
       \/ ~tok.sigwf
       \/ tok.key # ServerKey

\* C23: a token whose header is not alg ES256 / typ JWT or whose signature
\* does not verify is rejected as BadSignature whatever its claims are: it
\* is never reported as Expired, nothing is decoded from it, and the error
\* does not send the relying party's verifier to the refresh path.
C23_BadSignatureFirst ==
    \A s \in Slots :
        (Decoded(slot[s]) /\ BadlySigned(slot[s].tok)) =>
            /\ slot[s].derr = ValidateError("BadSignature")
            /\ slot[s].dec = NoToken
            /\ ~errorIsRefreshable(slot[s].derr)

\* a token signed with another key whose exp is in the past has been
\* rejected as BadSignature
C23_Witness ==
    \E s \in Slots :
        /\ Decoded(slot[s]) /\ slot[s].tok.wf /\ slot[s].tok.hdrwf /\ slot[s].tok.sigwf
        /\ verifyHeader(slot[s].tok)
        /\ slot[s].tok.key = AttackerKey
        /\ slot[s].tok.claimswf /\ slot[s].tok.iat <= now /\ slot[s].tok.exp < now
        /\ slot[s].derr = ValidateError("BadSignature")

\* structure, header, signature, iat, exp and iss of the token are accepted
AllButAudience(tok) ==
    /\ ClaimsReached(tok, ServerKey)
    /\ tok.iat <= now /\ tok.exp >= now
    /\ tok.iss = IssuerDomain

\* C24: under the server validator a token with valid structure, header,
\* signature, iat, exp and issuer decodes whatever its aud is.
C24_ServerIgnoresAudience ==
    \A s \in Slots :
        (Decoded(slot[s]) /\ slot[s].role = "server" /\ AllButAudience(slot[s].tok)) =>
            /\ slot[s].derr = Nil
            /\ slot[s].dec.sub = slot[s].tok.sub

\* a token for another audience has been decoded by the server
C24_Witness ==
    \E s \in Slots :
        /\ Decoded(slot[s]) /\ slot[s].role = "server" /\ AllButAudience(slot[s].tok)
        /\ slot[s].tok.aud = <<"other-aud">>
        /\ slot[s].derr = Nil

\* C25: under a client validator a token that passes the structure,
\* signature, time and issuer checks is accepted exactly when the configured
\* audience is one of the words of its aud string split on single spaces,
\* and is rejected with InvalidAudience otherwise.
C25_ClientAudience ==
    \A s \in Slots :
        (Decoded(slot[s]) /\ slot[s].role = "client" /\ AllButAudience(slot[s].tok)) =>
            IF \E i \in 1..Len(slot[s].tok.aud) : <<slot[s].tok.aud[i]>> = slot[s].vaud
                THEN slot[s].derr = Nil
                ELSE slot[s].derr = ValidateError("InvalidAudience")

\* a token whose aud has two words, the second being the client's
\* audience, has been accepted
C25_Witness ==
    \E s \in Slots :
        /\ Decoded(slot[s]) /\ slot[s].role = "client" /\ AllButAudience(slot[s].tok)
        /\ slot[s].tok.aud = <<"other-aud", ClientAudience>>
        /\ slot[s].vaud = <<ClientAudience>>
        /\ slot[s].derr = Nil

\* the strings of a list, as a set
AudienceSet(audience) == {audience[i] : i \in 1..Len(audience)}

\* the slot holds the result of decoding, under a client validator whose
\* audience is one of the list, a token that Issue made from slot.inp
RoundTrip(sl) ==
    /\ Decoded(sl) /\ sl.inp.sub # ""
    /\ sl.role = "client"
    /\ sl.vaud \in AudienceSet(sl.inp.aud)

\* subject, issuer, audience set and (refresh) secret of the decoded token
\* are those the token was issued with
SameFields(sl) ==
    /\ sl.derr = Nil
    /\ sl.dec.sub = sl.inp.sub
    /\ sl.dec.iss = IssuerDomain
    /\ AudienceSet(sl.dec.aud) = AudienceSet(sl.inp.aud)
    /\ sl.inp.kind = "refresh" => sl.dec.secret = sl.tok.secret

\* C26 as stated: for every non-empty audience list, a token issued by the
\* server and decoded by a client validator configured with an audience of
\* the list yields the identical subject, issuer, audience set and secret.
C26_AsStated ==
    \A s \in Slots : RoundTrip(slot[s]) => SameFields(slot[s])

\* C26: the round trip preserves subject, issuer, audience set and secret
\* whenever no audience of the list contains a space.
C26_RoundTrip ==
    \A s \in Slots :
        ( /\ RoundTrip(slot[s])
          /\ \A i \in 1..Len(slot[s].inp.aud) : Len(slot[s].inp.aud[i]) = 1 )
        => SameFields(slot[s])

\* a refresh token issued for two audiences has been decoded by a client
\* of the second one, secret included
C26_Witness ==
    \E s \in Slots :
        /\ RoundTrip(slot[s]) /\ slot[s].inp.kind = "refresh"
        /\ slot[s].inp.aud = <<<<"other-aud">>, <<ClientAudience>>>>
        /\ slot[s].dec.aud = <<<<"other-aud">>, <<ClientAudience>>>>
        /\ slot[s].dec.secret = 1 /\ slot[s].tok.secret = 1

\* C27: for all r and s below 2^(8*32), leading zero bytes included, the
\* encoded signature holds exactly 64 bytes, r right-aligned in the first
\* half and s right-aligned in the second, and decoding gives back r and s.
C27_SignatureRoundTrip ==
    \A s \in Slots :
        slot[s].mode \in {"signed", "unsigned"} =>
            LET buf == DecodeString(slot[s].sigEnc)
            IN  /\ Len(buf) = 2 * IntBytes
                /\ \A i \in 1..IntBytes :
                      LET place == ByteBase ^ (IntBytes - i)
                      IN  /\ buf[i] = (slot[s].sigIn[1] \div place) % ByteBase
                          /\ buf[IntBytes + i] = (slot[s].sigIn[2] \div place) % ByteBase
                /\ slot[s].mode = "unsigned" => slot[s].sigOut = slot[s].sigIn

\* an r with a leading zero byte and an s of zero have been encoded and
\* decoded
C27_Witness ==
    \E s \in Slots :
        /\ slot[s].mode = "unsigned"
        /\ slot[s].sigIn = <<ByteBase - 1, 0>>
        /\ slot[s].sigOut = <<ByteBase - 1, 0>>

\* a string that is not three segments, or has a header, signature or
\* claims segment that does not decode
StructurallyMalformed(tok) == ~tok.wf \/ ~tok.hdrwf \/ ~tok.sigwf \/ ~tok.claimswf

\* C28 as stated: every structurally malformed token is rejected with the
\* error kind Malformed.
C28_AsStated ==
    \A s \in Slots :
        (Decoded(slot[s]) /\ StructurallyMalformed(slot[s].tok)) =>
            slot[s].derr = ValidateError("Malformed")

\* C28: every structurally malformed token is rejected and nothing is
\* decoded. The kind is Malformed when the string is not three segments or
\* its header does not decode; otherwise BadSignature when the header is
\* not ES256/JWT, the signature segment does not decode or the signature
\* does not verify; otherwise (only the claims segment does not decode)
\* Malformed.
C28_Malformed ==
    \A s \in Slots :
        (Decoded(slot[s]) /\ StructurallyMalformed(slot[s].tok)) =>
            /\ slot[s].dec = NoToken
            /\ slot[s].derr =
                  IF ~slot[s].tok.wf \/ ~slot[s].tok.hdrwf THEN ValidateError("Malformed")
                  ELSE IF BadlySigned(slot[s].tok) THEN ValidateError("BadSignature")
                  ELSE ValidateError("Malformed")

\* a correctly signed string whose claims segment is not JSON has been
\* rejected as Malformed
C28_Witness ==
    \E s \in Slots :
        /\ Decoded(slot[s])
        /\ slot[s].tok.wf /\ slot[s].tok.hdrwf /\ verifyHeader(slot[s].tok)
        /\ slot[s].tok.sigwf /\ slot[s].tok.key = ServerKey
        /\ ~slot[s].tok.claimswf
        /\ slot[s].derr = ValidateError("Malformed")

\* the rows of the refresh table that hold jwt
RowsOf(tbl, jwt) == {row \in tbl : row.jwt = jwt}

\* no encoded JWT is held by two rows
AtMostOneRow == \A row \in refresh : Cardinality(RowsOf(refresh, row.jwt)) <= 1

\* C29: in every reachable state the refresh table holds at most one row
\* for any encoded JWT, and a step whose delete reports deleted = true
\* removes exactly one row, the one holding the presented JWT.
C29_OneRowPerJWT ==
    /\ []AtMostOneRow
    /\ [][\A s \in Slots :
             (slot'[s].deleted /\ ~slot[s].deleted) =>
                 /\ Cardinality(refresh \ refresh') = 1
                 /\ refresh \ refresh' = RowsOf(refresh, slot'[s].tok)
                 /\ refresh' \subseteq refresh]_vars

\* a rotation has found and deleted the row of the presented token
C29_Witness ==
    \E s \in Slots :
        /\ slot[s].spc = "issue" /\ slot[s].deleted /\ slot[s].hadRow
        /\ ~Stored(slot[s].tok)

\* C30: a lookup made while a reload is in progress of a service that the
\* catalog held before the reload and that the reload read from the
\* directory finds the service.
C30_AtomicReload ==
    [][\A s \in Slots :
          ( /\ slot[s].mode = "free" /\ slot'[s].mode = "getservice"
            /\ directory.pc = "loop"
            /\ slot'[s].sent.service \in
                  (directory.old \cap directory.listed \cap directory.files) \ directory.bad )
          => (slot'[s].serr = Nil /\ ~slot'[s].fault)]_vars

\* C31 as stated: a callback begins only when Debounce has passed since
\* scheduleReload last received an event, and at most one callback begins
\* after a receive.
C31_Debounce ==
    /\ watcher.quiet >= Debounce
    /\ watcher.fires <= 1

\* C40: every write, create or remove event is eventually followed by the
\* beginning of a callback later than the event, when the goroutines keep
\* running and the events stop (there are at most MaxEvents of them).
C40_NoChangeLost == watcher.dirty ~> ~watcher.dirty

\* all the events have happened and have been taken by handleWatcher, and a
\* callback has begun after the last of them
C40_Witness ==
    /\ watcher.events = MaxEvents
    /\ watcher.queue = <<>> /\ watcher.hw = "select"
    /\ watcher.sched = "callback" /\ watcher.fires = 1
    /\ ~watcher.dirty

\* C34: when a reload is over and no change is waiting for the next one,
\* the catalog holds exactly the files of the directory that parse: every
\* valid definition, and no entry for an invalid file.
C34_SkipInvalid ==
    (directory.pc = "idle" /\ ~directory.reload) =>
        DOMAIN directory.services = directory.files \ directory.bad



\* ------------------------------------------------- test double of the verifier
\* TestVerifier.validateAccessToken / validateRefreshToken: the decoding is
\* done by tv.env.Validator, which NewTestEnv takes from tokens.InitServer
TestVerifier_validateAccessToken(cookie, t) ==
    IF cookie = <<>> THEN [tok |-> <<>>, err |-> ErrTokenAbsent]
    ELSE IF decodeToken(cookie[1], ServerValidator, t) # Nil
        THEN [tok |-> <<>>, err |-> decodeToken(cookie[1], ServerValidator, t)]
    ELSE [tok |-> cookie, err |-> Nil]

TestVerifier_validateRefreshToken(cookie, t) ==
    IF cookie = <<>> THEN [tok |-> <<>>, err |-> ErrTokenAbsent]
    ELSE IF decodeToken(cookie[1], ServerValidator, t) # Nil
        THEN [tok |-> <<>>, err |-> decodeToken(cookie[1], ServerValidator, t)]
    ELSE [tok |-> cookie, err |-> Nil]

\* TestVerifier.refreshTokens: a pair for the subject and the audience of the
\* old refresh token, made in process; it has no error but the issuer's
TestVerifier_refreshTokens(oldRefresh, t, n) ==
    [a |-> <<IssueAccessToken(oldRefresh.sub, SplitAudience(oldRefresh.aud), AccessLifetime, t, n)>>,
     r |-> <<IssueRefreshToken(oldRefresh.sub, SplitAudience(oldRefresh.aud), TestRefreshLifetime, t, n)>>]

\* what a whole call of an entry point did: its outcome and whether
\* setTokenCookies ran
Call(out, wrote) == [out |-> out, wrote |-> wrote]

\* TestVerifier.VerifyAuthorization
TestVerifier_VerifyAuthorization(a, r, t) ==
    LET va == TestVerifier_validateAccessToken(a, t)
        vr == TestVerifier_validateRefreshToken(r, t)
    IN  IF va.tok # <<>> THEN Call(Outcome(va.tok, 0, Nil), FALSE)
        ELSE IF ~errorIsRefreshable(va.err) THEN Call(Outcome(<<>>, 0, ErrTokenInvalid), FALSE)
        ELSE IF vr.err # Nil
            THEN IF ErrorsIs(vr.err, ErrTokenAbsent)
                    THEN Call(Outcome(<<>>, 0, ErrTokenAbsent), FALSE)
                    ELSE Call(Outcome(<<>>, 0, ErrTokenInvalid), FALSE)
        ELSE Call(Outcome(TestVerifier_refreshTokens(vr.tok[1], t, minted + 1).a, 0, Nil), TRUE)

\* TestVerifier.VerifyAuthorizationGetCSRF
TestVerifier_VerifyAuthorizationGetCSRF(a, r, t) ==
    LET c == TestVerifier_VerifyAuthorization(a, r, t)
        vr == TestVerifier_validateRefreshToken(r, t)
    IN  IF c.out.err # Nil THEN Call(Outcome(c.out.tok, 0, c.out.err), c.wrote)
        ELSE IF vr.err # Nil THEN Call(Outcome(<<>>, 0, vr.err), c.wrote)
        ELSE Call(Outcome(c.out.tok, vr.tok[1].secret, Nil), c.wrote)

\* TestVerifier.VerifyAuthorizationCheckCSRF
TestVerifier_VerifyAuthorizationCheckCSRF(a, r, reqCSRFSecret, t) ==
    LET vr == TestVerifier_validateRefreshToken(r, t)
        va == TestVerifier_validateAccessToken(a, t)
    IN  IF vr.err # Nil THEN Call(Outcome(<<>>, 0, ErrTokenInvalid), FALSE)
        ELSE IF vr.tok[1].secret # reqCSRFSecret THEN Call(Outcome(<<>>, 0, ErrCSRFInvalid), FALSE)
        ELSE IF va.tok # <<>> THEN Call(Outcome(va.tok, vr.tok[1].secret, Nil), FALSE)
        ELSE IF ~errorIsRefreshable(va.err) THEN Call(Outcome(<<>>, 0, ErrTokenInvalid), FALSE)
        ELSE LET p == TestVerifier_refreshTokens(vr.tok[1], t, minted + 1)
             IN  Call(Outcome(p.a, p.r[1].secret, Nil), TRUE)

\* a call of the production Client whose POST to /api/refresh, when it makes
\* one, is answered with the pair Service.RefreshTokens issues for the
\* refresh cookie
AcceptedRefresh(pre, r, t) ==
    IF ~pre.go THEN Call(pre.out, FALSE)
    ELSE Call(Outcome(<<IssueAccessToken(r[1].sub, SplitAudience(r[1].aud), AccessLifetime, t, minted + 1)>>,
                      IssueRefreshToken(r[1].sub, SplitAudience(r[1].aud), RefreshLifetime, t, minted + 1).secret,
                      Nil), TRUE)

\* Client.VerifyAuthorizationGetCSRF over such a server
AcceptedGetCSRF(a, r, t) ==
    LET c == AcceptedRefresh(VerifyAuthorizationPre(a, r, t), r, t)
    IN  Call(GetCSRFTail(c.out, r, t), c.wrote)

\* the same outcome: a token for the same subject or the same error, and
\* cookies written by both or by neither
SameCall(x, y) ==
    /\ x.wrote = y.wrote
    /\ x.out.err = y.out.err
    /\ (x.out.tok = <<>>) = (y.out.tok = <<>>)
    /\ x.out.tok # <<>> /\ y.out.tok # <<>> => x.out.tok[1].sub = y.out.tok[1].sub

\* C32: for every access cookie, refresh cookie and CSRF secret, each entry
\* point of the test double ends as the production verifier's does over an
\* auth server that accepts the refresh: the same error or a token for the
\* same subject, and cookies written in the same cases
C32_Substitutable ==
    \A a \in Cookies, r \in Cookies :
        /\ SameCall(TestVerifier_VerifyAuthorization(a, r, now),
                    AcceptedRefresh(VerifyAuthorizationPre(a, r, now), r, now))
        /\ SameCall(TestVerifier_VerifyAuthorizationGetCSRF(a, r, now), AcceptedGetCSRF(a, r, now))
        /\ \A c \in Secrets(r) :
              SameCall(TestVerifier_VerifyAuthorizationCheckCSRF(a, r, c, now),
                       AcceptedRefresh(VerifyAuthorizationCheckCSRFPre(a, r, c, now), r, now))


\* C33: HandleAuthorizationCode always answers with a redirect to "/"; it
\* writes cookies only when the exchange succeeded (the auth server answered
\* 200 and the cookies hold the pair that answer carried); without an
\* auth_code it sends no request to the auth server; after a failed exchange
\* (no answer, an answer other than 200) it writes no cookie
C33_AuthCodeHandler ==
    \A s \in Slots :
        LET sl == slot[s]
        IN  sl.mode = "authcode" /\ sl.cpc = "ret" =>
              /\ sl.resp.code = StatusSeeOther /\ sl.resp.location = "/"
              /\ sl.resp.set = (sl.setA # <<>>) /\ sl.resp.set = (sl.setR # <<>>)
              /\ sl.r = <<>> => ~sl.posted /\ ~sl.resp.set
              /\ sl.resp.set =>
                    /\ sl.posted /\ sl.spc = "done" /\ sl.status = StatusOK
                    /\ sl.setA = sl.newA /\ sl.setR = sl.newR
              /\ (sl.spc # "done" \/ sl.status # StatusOK \/ sl.got.status # StatusOK) => ~sl.resp.set

\* a handler wrote the cookies of a successful exchange of an auth code and
\* redirected
C33_Witness ==
    \E s \in Slots :
        /\ slot[s].mode = "authcode" /\ slot[s].cpc = "ret"
        /\ slot[s].resp.set /\ slot[s].setR = slot[s].newR /\ slot[s].newR # <<>>
        /\ slot[s].resp.location = "/"

C37_AllOrNothing ==
    \A s \in Slots :
        /\ slot[s].mode \in {"post", "apirefresh"}
        /\ slot[s].spc = "done" /\ slot[s].status # StatusOK
        /\ slot[s].stored0
        => Stored(slot[s].tok)

\* C38: the token an entry point of the verifier returns is never one that
\* the server issued as a refresh token or as an authorization code
C38_AccessTokensOnly ==
    \A s \in Slots :
        /\ slot[s].mode \in {"verify", "getcsrf", "checkcsrf"}
        /\ slot[s].cpc = "ret"
        /\ slot[s].out.tok # <<>>
        => slot[s].out.tok[1] \notin handed

\* ---------------------------------------------- concurrent relying-party calls
\* requests to the relying party are served concurrently: each slot is one
\* call of VerifyAuthorization, whose POST the auth server serves step by
\* step, interleaved with the other's
RaceNext ==
    \/ Quiet /\ Tick
    \/ \E h \in Handles : FirstFree(1) /\ Register(1, h, "pw")
    \/ \E h \in Handles, p \in Passwords : FirstFree(1) /\ APILogin(1, "json", TRUE, h, p, "test")
    \/ \E s \in Slots, a \in Cookies, r \in Cookies : FirstFree(s) /\ BeginVerify(s, a, r)
    \/ \E s \in Slots : Quiet /\ SrvDecode(s)
    \/ \E s \in Slots : Quiet /\ SrvDelete(s)
    \/ \E s \in Slots : Quiet /\ SrvIssue(s)
    \/ \E s \in Slots : Quiet /\ SrvInsert(s)
    \/ \E s \in Slots, net \in {"ok", "lost"} : Quiet /\ Finish(s, net)
    \/ \E s \in Slots : Release(s)

SpecRace == Init /\ [][RaceNext]_vars

\* the call obtained a new pair and wrote it
Won(sl) ==
    /\ sl.out.err = Nil /\ sl.out.tok # <<>>
    /\ sl.deleted /\ sl.status = StatusOK
    /\ sl.setA = sl.newA /\ sl.setR = sl.newR /\ sl.out.tok = sl.newA

\* the call returned NetworkTokenRefresh and wrote nothing, and the row of its
\* token went to another call, which has succeeded or is completing
Lost(s) ==
    /\ slot[s].out.err = ErrNetworkTokenRefresh /\ slot[s].out.tok = <<>>
    /\ slot[s].setA = <<>> /\ slot[s].setR = <<>>
    /\ ~slot[s].deleted
    /\ \/ slot[s].tok \in Consumed
       \/ \E u \in Slots \ {s} : slot[u].tok = slot[s].tok /\ slot[u].deleted

\* C39: of the calls of VerifyAuthorization that come with an absent or
\* expired access token and the same valid stored refresh token, and whose
\* POST (when one is made) finds the token unexpired and is answered with
\* an answer that is read before the new pair expires, at most
\* one refresh of that token succeeds, and each call either obtained and wrote
\* the new pair or returned NetworkTokenRefresh without cookies because
\* another call took the token
C39_ExactlyOne ==
    /\ \A t \in Consumed : CopiesIn(t, log) = 1
    /\ \A s \in Slots :
          (/\ slot[s].mode = "verify" /\ slot[s].cpc = "ret"
           /\ (slot[s].a = <<>> \/ (slot[s].aerr = ValidateError("Expired") /\ slot[s].a[1] \notin handed))
           /\ slot[s].rerr = Nil
           /\ IF slot[s].posted THEN slot[s].stored0 ELSE Stored(slot[s].r[1])
           /\ slot[s].posted =>
                 /\ slot[s].derr = Nil /\ slot[s].spc = "done" /\ slot[s].got.status = slot[s].status
                 /\ slot[s].status = StatusOK =>
                       /\ decodeToken(slot[s].newA[1], ClientValidator, now) = Nil
                       /\ decodeToken(slot[s].newR[1], ClientValidator, now) = Nil)
          => (Won(slot[s]) \/ Lost(s))
====
